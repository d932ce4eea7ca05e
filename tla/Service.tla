------------------------------ MODULE Service ------------------------------
(***************************************************************************)
(* Parts of the service that answer requests from what they keep or from   *)
(* what the daemon tells: the streaming server, what is known of the       *)
(* daemon, the image service, the status of a sandbox and the translation  *)
(* of configurations.  They run in one process, but no step of one reads   *)
(* or writes what another has: in a behaviour of this module one of them,  *)
(* chosen at the start, runs, and the others rest.                         *)
(***************************************************************************)
EXTENDS Streaming, SystemInfo, Images, SandboxStatus, Translation

VARIABLE part   \* the part that runs

serviceVars ==
  <<part, cacheVars, streamVars, infoVars, imageVars, statusVars, translationVars>>

ServiceInit ==
  /\ part \in {"streaming", "info", "images", "status", "translation"}
  /\ StreamingInit /\ InfoInit
  /\ ImagesInit /\ (part # "images" => images = {})
  /\ StatusInit /\ (part # "status" => statusPod = CHOOSE p \in StatusPods : TRUE)
  /\ IF part = "translation" THEN TranslationInit ELSE input = nil /\ output = nil

ServiceNext ==
  \/ part = "streaming" /\ StreamingNext
     /\ UNCHANGED <<part, infoVars, imageVars, statusVars, translationVars>>
  \/ part = "info" /\ InfoNext
     /\ UNCHANGED <<part, cacheVars, streamVars, imageVars, statusVars, translationVars>>
  \/ part = "images" /\ ImagesNext
     /\ UNCHANGED <<part, cacheVars, streamVars, infoVars, statusVars, translationVars>>
  \/ part = "status" /\ StatusNext
     /\ UNCHANGED <<part, cacheVars, streamVars, infoVars, imageVars, translationVars>>
  \/ part = "translation" /\ TranslationNext
     /\ UNCHANGED <<part, cacheVars, streamVars, infoVars, imageVars, statusVars>>

ServiceSpec == ServiceInit /\ [][ServiceNext]_serviceVars /\ ImagesFairness
=============================================================================
