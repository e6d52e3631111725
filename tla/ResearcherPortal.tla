-------------------------- MODULE ResearcherPortal --------------------------
(***************************************************************************)
(* The researcher portal: access requests decide who may ask for a copy    *)
(* with a watermark, the pipeline makes it, and getWatermarkJob hands out  *)
(* the link.                                                               *)
(***************************************************************************)
EXTENDS WatermarkPipeline

VARIABLES
  open, gone, access, admitted,   \* AccessRequests
  urls                            \* history: the links handed out, and to whom

Requests == INSTANCE AccessRequests

requestVars == <<open, gone, access, admitted>>

portalVars == <<vars, requestVars, urls>>

PortalInit == Requests!Init /\ Init /\ urls = {}

(* requestDownload begins with assertViewable. *)
RequestDownload(j, r, i) ==
  /\ Requests!Viewable(r, i)
  /\ CheckDownload(j, r, i)
  /\ UNCHANGED <<requestVars, urls>>

(* Plausible slip: whose job it is goes unchecked. *)
OwnJob_Any(r, j) == TRUE

OwnJob(r, j) == job[j].researcher = r

(* Plausible slip: the answer does not wait for the copy. *)
HasCopy_Row(j) == Row(j)

HasCopy(j) == job[j].state = "DONE" /\ job[j].path # None

(* getWatermarkJob: a link to the copy, if it is there.  Whether the item   *)
(* may still be viewed is not asked.                                        *)
GetWatermarkJob(r, j) ==
  /\ HasCopy(j)
  /\ OwnJob(r, j)
  /\ urls' = urls \cup {[to |-> r, key |-> job[j].path]}
  /\ UNCHANGED <<requestVars, vars>>

PortalNext ==
  \/ Requests!Next /\ UNCHANGED <<vars, urls>>
  \/ Work /\ UNCHANGED <<requestVars, urls>>
  \/ \E r \in Researchers, j \in Jobs, i \in Items : RequestDownload(j, r, i)
  \/ \E r \in Researchers, j \in Jobs : GetWatermarkJob(r, j)

PortalSpec == PortalInit /\ [][PortalNext]_portalVars

-----------------------------------------------------------------------------
PortalTypeOK ==
  /\ Requests!TypeOK
  /\ TypeOK
  /\ urls \subseteq [to : Researchers, key : Keys]

(* Every copy is of an item that its researcher had been given leave to     *)
(* view, and getWatermarkJob hands the link to that researcher only, however*)
(* access changes between the request, the worker and the answer.           *)
UrlsRightful ==
  /\ \A k \in objects : <<k.researcher, k.item>> \in admitted
  /\ \A u \in urls : u.to = u.key.researcher /\ <<u.to, u.key.item>> \in admitted
=============================================================================
