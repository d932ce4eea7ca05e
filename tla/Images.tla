------------------------------- MODULE Images -------------------------------
(***************************************************************************)
(* The image service: PullImage with the reporter that cancels a download  *)
(* without progress, ensureSandboxImageExists, which pulls with one set of *)
(* credentials after the other, RemoveImage, which removes every name of   *)
(* an image, and ImageStatus.  The daemon's images are external: an image  *)
(* has an ID, and names, each a tag or a digest in the repository of a tag.*)
(***************************************************************************)
EXTENDS Integers

CONSTANTS
  ImageTags, ImageIDs, NoID,
  Pullers, Callers,             \* concurrent requests: pulls; removals and status
  Deadline,                     \* imagePullProgressDeadline, in report intervals
  MaxMessages,                  \* bound on the messages of one pull
  MaxCredentials,               \* bound on the credentials for the sandbox image
  MaxImageFaults                \* bound on errors of the daemon

ASSUME ImagesAssumption ==
  /\ ImageIDs # {} /\ NoID \notin ImageIDs /\ ImageTags \cap ImageIDs = {}
  /\ (ImageTags \X ImageIDs) \cap (ImageTags \cup ImageIDs) = {} /\ MaxCredentials \in Nat

VARIABLES
  registry,    \* the image that a tag denotes in its registry
  tagged,      \* the image that a tag denotes here
  digests,     \* the digests known here: pairs of repository and image
  images,      \* the images here
  pull, call,
  panicked,    \* has the process died
  imageFaults

imageVars == <<registry, tagged, digests, images, pull, call, panicked, imageFaults>>
heldVars == <<tagged, digests, images>>

\* How a request may name an image: by a tag, a name without one, a digest, its
\* ID, an ID that is cut short or lacks the algorithm ("short": both matchers
\* refuse it), the first digits of an ID, and a digest made of the ID.
NamedBy == ({"tag", "name"} \X ImageTags) \cup ({"digest"} \X (ImageTags \X ImageIDs))
           \cup ({"ID", "short", "digits", "repo@ID"} \X ImageIDs)
NoRef == <<"none", NoID>>

NoPull ==
  [pc |-> "idle", tag |-> NoID, tries |-> 0, message |-> "nil", messages |-> 0, age |-> 0,
   downloaded |-> FALSE, cancels |-> FALSE, canceled |-> FALSE, landed |-> FALSE, sandbox |-> FALSE,
   result |-> "none"]
NoImageCall == [pc |-> "idle", ref |-> NoRef, names |-> {}, moved |-> {}, lacking |-> FALSE, result |-> "none"]

ImagesInit ==
  /\ registry = [t \in ImageTags |-> CHOOSE i \in ImageIDs : TRUE]
  /\ tagged \in [ImageTags -> ImageIDs \cup {NoID}]
  /\ digests = {d \in ImageTags \X ImageIDs : tagged[d[1]] = d[2]}
  /\ images = {d[2] : d \in digests} /\ panicked = FALSE /\ imageFaults = 0
  /\ pull = [p \in Pullers |-> NoPull] /\ call = [c \in Callers |-> NoImageCall]

DaemonErrs == imageFaults < MaxImageFaults /\ imageFaults' = imageFaults + 1
NoDaemonErr == UNCHANGED imageFaults

-----------------------------------------------------------------------------
(* The images of the daemon.                                               *)

TagsOf(i) == {t \in ImageTags : tagged[t] = i}
DigestsOf(i) == {d \in digests : d[2] = i}

\* Is there an image of this name or ID.
Found(n) ==
  IF n \in ImageTags THEN tagged[n] # NoID ELSE n \in digests \cup images

\* The names ts and ds go, and with the last name of an image the image.
Drop(ts, ds) ==
  /\ tagged' = [t \in ImageTags |-> IF t \in ts THEN NoID ELSE tagged[t]]
  /\ digests' = digests \ ds
  /\ images' = {i \in images : \/ TagsOf(i) \cup DigestsOf(i) = {}
                              \/ ~(TagsOf(i) \subseteq ts /\ DigestsOf(i) \subseteq ds)}

\* ImageRemove of a tag: the digests of its repository go with it.
\* ImageRemove of an ID is refused when the image is in two repositories.
ImageRemove(n) ==
  IF n \in ImageTags THEN Drop({n}, {<<n, tagged[n]>>})
  ELSE IF n \in digests THEN Drop({}, {n})
  ELSE /\ tagged' = [t \in ImageTags |-> IF tagged[t] = n THEN NoID ELSE tagged[t]]
       /\ digests' = digests \ DigestsOf(n) /\ images' = images \ {n}

Repositories(i) == TagsOf(i) \cup {d[1] : d \in DigestsOf(i)}
Conflict(n) == n \in images /\ \E t, u \in Repositories(n) : t # u

-----------------------------------------------------------------------------
(* The client.                                                             *)

\* The daemon knows an image by what a reference says, but for a digest that is
\* an ID: it looks for digests of manifests.
Denoted(ref) == ref[1] # "repo@ID" /\ Found(ref[2])

\* The image that was inspected has the tag or the digest; a name without either,
\* which the start of an ID is too, is not compared with it.  An ID parses as a
\* tag in the repository sha256, and 64 digits do not parse.
matchImageTagOrSHA(ref) == ref[1] \in {"tag", "digest", "repo@ID", "name", "digits"}

\* The very ID, or a digest that is the ID.
matchImageIDOnly(ref) == ref[1] \in {"ID", "repo@ID"}

InspectImageByRef(ref) == Denoted(ref) /\ matchImageTagOrSHA(ref)
InspectImageByID(ref) == Denoted(ref) /\ matchImageIDOnly(ref)

-----------------------------------------------------------------------------
(* PullImage and ensureSandboxImageExists.                                 *)

\* The call returns.
PullReturns(p, result) ==
  pull' = [pull EXCEPT ![p] = [NoPull EXCEPT !.pc = "done", !.tag = pull[p].tag, !.sandbox = pull[p].sandbox,
                                             !.result = result]]

\* An error: for the sandbox's image the next credentials are tried.
PullFails(p) ==
  IF pull[p].tries > 1
    THEN pull' = [pull EXCEPT ![p] = [NoPull EXCEPT !.pc = "pull", !.tag = pull[p].tag,
                                                    !.tries = pull[p].tries - 1, !.sandbox = TRUE]]
    ELSE PullReturns(p, "error")

\* The tag in the registry is given to another image.
Publish ==
  /\ \E t \in ImageTags, i \in ImageIDs : registry[t] # i /\ registry' = [registry EXCEPT ![t] = i]
  /\ DaemonErrs /\ UNCHANGED <<heldVars, pull, call, panicked>>

PullImage(p, t) ==
  /\ pull[p].pc = "idle" /\ pull' = [pull EXCEPT ![p].pc = "pull", ![p].tag = t, ![p].tries = 1]
  /\ UNCHANGED <<registry, heldVars, call, panicked, imageFaults>>

ensureSandboxImageExists(p, t) ==
  /\ pull[p].pc = "idle"
  /\ \/ /\ InspectImageByRef(<<"tag", t>>) /\ NoDaemonErr
        /\ pull' = [pull EXCEPT ![p].pc = "done", ![p].tag = t, ![p].sandbox = TRUE, ![p].result = "ok"]
     \/ /\ ~InspectImageByRef(<<"tag", t>>) /\ NoDaemonErr
        /\ \E n \in 1..MaxCredentials :
             pull' = [pull EXCEPT ![p].pc = "pull", ![p].tag = t, ![p].tries = n, ![p].sandbox = TRUE]
     \/ DaemonErrs /\ PullReturns(p, "error")
  /\ UNCHANGED <<registry, heldVars, call, panicked>>

\* ImagePull answers, as late as the daemon likes, and the reporter starts.
ImagePull(p) ==
  /\ pull[p].pc = "pull"
  /\ \/ NoDaemonErr /\ pull' = [pull EXCEPT ![p].pc = "decode"]
     \/ DaemonErrs /\ PullFails(p)
  /\ UNCHANGED <<registry, heldVars, call, panicked>>

\* progress.set: a message has been decoded; one that had been received may be
\* decoded after the pull was canceled.
SetProgress(p) ==
  /\ pull[p].pc = "decode" /\ pull[p].messages < MaxMessages
  /\ \E m \in {"Downloading", "Extracting"} :
       pull' = [pull EXCEPT ![p].message = m, ![p].age = 0, ![p].messages = @ + 1]
  /\ UNCHANGED <<registry, heldVars, call, panicked, imageFaults>>

\* The daemon has the image, and the end of the stream is on its way.
Lands(p) ==
  /\ pull[p].pc = "decode" /\ ~pull[p].landed /\ pull' = [pull EXCEPT ![p].landed = TRUE]
  /\ LET t == pull[p].tag
         i == registry[t]
     IN /\ tagged' = [tagged EXCEPT ![t] = i] /\ digests' = digests \cup {<<t, i>>}
        /\ images' = images \cup {i}
        /\ call' = [c \in Callers |-> IF call[c].pc = "names" THEN [call[c] EXCEPT !.moved = @ \cup {t}]
                                                             ELSE call[c]]
  /\ UNCHANGED <<registry, panicked, imageFaults>>

\* The decoder meets the end of the stream, even if the pull was canceled by now.
EndOfStream(p) ==
  /\ pull[p].pc = "decode" /\ pull[p].landed
  /\ IF pull[p].sandbox THEN PullReturns(p, "ok")
     ELSE pull' = [pull EXCEPT ![p] = [NoPull EXCEPT !.pc = "ref", !.tag = pull[p].tag]]
  /\ UNCHANGED <<registry, heldVars, call, panicked, imageFaults>>

\* The stream breaks, or ends because the context was canceled.
Breaks(p) ==
  /\ pull[p].pc = "decode" /\ (IF pull[p].canceled THEN NoDaemonErr ELSE DaemonErrs) /\ PullFails(p)
  /\ UNCHANGED <<registry, heldVars, call, panicked>>

\* getImageRef: the image may have been removed by now.
getImageRef(p) ==
  /\ pull[p].pc = "ref"
  /\ \/ NoDaemonErr /\ PullReturns(p, IF InspectImageByRef(<<"tag", pull[p].tag>>) THEN "ok" ELSE "error")
     \/ DaemonErrs /\ PullReturns(p, "error")
  /\ UNCHANGED <<registry, heldVars, call, panicked>>

Downloaded(q) == q.downloaded \/ q.message = "Extracting"

\* Slip: every report counts as progress.
SinceReport(q) == 1

\* The time since the last message, in report intervals.
Since(q) == IF q.age > Deadline THEN q.age ELSE q.age + 1

\* progressReporter.start, at every interval, reads the last message and its
\* time, until it has decided to cancel the pull or the pull has returned.  Before
\* the first message there is none to look at.
Report(p) ==
  /\ pull[p].pc = "decode" /\ ~pull[p].cancels
  /\ LET age == Since(pull[p])
         downloaded == Downloaded(pull[p])
     IN IF pull[p].message = "nil"
          THEN panicked' = TRUE /\ UNCHANGED pull
          ELSE /\ pull' = [pull EXCEPT ![p].age = age, ![p].downloaded = downloaded,
                                       ![p].cancels = ~downloaded /\ age > Deadline]
               /\ UNCHANGED panicked
  /\ UNCHANGED <<registry, heldVars, call, imageFaults>>

\* It cancels the pull it has decided about, whatever has been decoded since.
Cancel(p) ==
  /\ pull[p].pc = "decode" /\ pull[p].cancels /\ ~pull[p].canceled
  /\ pull' = [pull EXCEPT ![p].canceled = TRUE]
  /\ UNCHANGED <<registry, heldVars, call, panicked, imageFaults>>

-----------------------------------------------------------------------------
(* RemoveImage and ImageStatus.                                            *)

\* RepoTags, RepoDigests and the ID.
NamesOf(i) == TagsOf(i) \cup DigestsOf(i) \cup {i}

\* The names that may come first: the tags, then the digests, the ID at the end.
FirstNames(names) ==
  IF names \cap ImageTags # {} THEN names \cap ImageTags
  ELSE IF names \ ImageIDs # {} THEN names \ ImageIDs ELSE names

\* An image that is not found by its ID counts as removed: with a tag, a digest
\* or part of an ID nothing is removed, and no error is returned.
RemoveImage(c, ref) ==
  /\ call[c].pc = "idle"
  /\ \/ /\ NoDaemonErr
        /\ call' = [call EXCEPT ![c] =
             IF InspectImageByID(ref) THEN [NoImageCall EXCEPT !.pc = "names", !.ref = ref, !.names = NamesOf(ref[2])]
                                      ELSE [NoImageCall EXCEPT !.pc = "removed", !.ref = ref]]
     \/ DaemonErrs /\ call' = [call EXCEPT ![c] = [NoImageCall EXCEPT !.pc = "error", !.ref = ref]]
  /\ UNCHANGED <<registry, heldVars, pull, panicked>>

\* The name n is done with.
NextName(c, n) ==
  call' = [call EXCEPT ![c].names = @ \ {n}, ![c].pc = IF call[c].names = {n} THEN "removed" ELSE @]

\* Slip: an error does not end the loop.
RemoveNameLenient(c) ==
  /\ call[c].pc = "names"
  /\ \E n \in FirstNames(call[c].names) :
        \/ Found(n) /\ ~Conflict(n) /\ NoDaemonErr /\ ImageRemove(n) /\ NextName(c, n)
        \/ ~Found(n) /\ NoDaemonErr /\ NextName(c, n) /\ UNCHANGED heldVars
        \/ /\ IF Conflict(n) THEN NoDaemonErr ELSE DaemonErrs
           /\ NextName(c, n) /\ UNCHANGED heldVars
  /\ UNCHANGED <<registry, pull, panicked>>

\* One turn of the loop: a name that is not found is skipped.
RemoveName(c) ==
  /\ call[c].pc = "names"
  /\ \E n \in FirstNames(call[c].names) :
        \/ Found(n) /\ ~Conflict(n) /\ NoDaemonErr /\ ImageRemove(n) /\ NextName(c, n)
        \/ ~Found(n) /\ NoDaemonErr /\ NextName(c, n) /\ UNCHANGED heldVars
        \/ /\ IF Conflict(n) THEN NoDaemonErr ELSE DaemonErrs
           /\ call' = [call EXCEPT ![c].pc = "error", ![c].names = {}] /\ UNCHANGED heldVars
  /\ UNCHANGED <<registry, pull, panicked>>

\* Slip: only names are looked up.
ImageStatusByRef(c, ref) ==
  /\ call[c].pc = "idle" /\ NoDaemonErr
  /\ call' = [call EXCEPT ![c] = [NoImageCall EXCEPT !.pc = "told", !.ref = ref, !.lacking = ~Denoted(ref),
                                  !.result = IF InspectImageByRef(ref) THEN "image" ELSE "nil"]]
  /\ UNCHANGED <<registry, heldVars, pull, panicked>>

ImageStatus(c, ref) ==
  /\ call[c].pc = "idle"
  /\ \/ /\ NoDaemonErr
        /\ call' = [call EXCEPT ![c] = [NoImageCall EXCEPT !.pc = IF InspectImageByRef(ref) THEN "told" ELSE "id",
                                        !.ref = ref, !.lacking = ~Denoted(ref),
                                        !.result = IF InspectImageByRef(ref) THEN "image" ELSE "none"]]
     \/ DaemonErrs /\ call' = [call EXCEPT ![c] = [NoImageCall EXCEPT !.pc = "error", !.ref = ref]]
  /\ UNCHANGED <<registry, heldVars, pull, panicked>>

\* The second look, by ID.
ImageStatusByID(c) ==
  /\ call[c].pc = "id"
  /\ LET ref == call[c].ref
     IN \/ /\ NoDaemonErr
           /\ call' = [call EXCEPT ![c].pc = "told", ![c].lacking = @ \/ ~Denoted(ref),
                                   ![c].result = IF InspectImageByID(ref) THEN "image" ELSE "nil"]
        \/ DaemonErrs /\ call' = [call EXCEPT ![c].pc = "error"]
  /\ UNCHANGED <<registry, heldVars, pull, panicked>>

ImagesNext ==
  /\ ~panicked
  /\ \/ Publish
     \/ \E p \in Pullers :
          \/ \E t \in ImageTags : PullImage(p, t) \/ ensureSandboxImageExists(p, t)
          \/ ImagePull(p) \/ SetProgress(p) \/ Lands(p) \/ EndOfStream(p) \/ Breaks(p) \/ getImageRef(p)
          \/ Report(p) \/ Cancel(p)
     \/ \E c \in Callers : \/ RemoveName(c) \/ ImageStatusByID(c)
                          \/ \E ref \in NamedBy : RemoveImage(c, ref) \/ ImageStatus(c, ref)

\* The reporter runs, and a read of a canceled stream returns.  Nothing is
\* assumed of the daemon and of the registry.
ImagesFairness ==
  \A p \in Pullers : /\ WF_imageVars(~panicked /\ Report(p)) /\ WF_imageVars(~panicked /\ Cancel(p))
                     /\ WF_imageVars(~panicked /\ pull[p].canceled /\ Breaks(p))

ImagesSpec == ImagesInit /\ [][ImagesNext]_imageVars /\ ImagesFairness

-----------------------------------------------------------------------------
(* Correctness.                                                            *)

\* A pull that gets no more messages ends, once the deadline has passed; unless
\* a report has seen the image being extracted, after which nothing ends it, or
\* came before the first message, which the process does not survive.  A pull is
\* canceled only if neither the report that decided so nor one before it saw the
\* image being extracted; messages decoded since are not looked at.
StalledPullsEnd ==
  /\ \A p \in Pullers : []<>(pull[p].pc # "decode" \/ pull[p].downloaded \/ panicked)
  /\ [](\A p \in Pullers : pull[p].canceled => ~pull[p].downloaded)

\* What a step may do to the images.
RemovalTrue ==
  /\ \A c \in Callers :
       call'[c].pc = "removed" /\ call[c].pc # "removed" /\ call'[c].ref[1] = "ID" =>
         LET i == call'[c].ref[2] IN i \notin images' /\ \A t \in ImageTags : tagged'[t] # i
  /\ \A i \in images \ images' :
       \E c \in Callers : \/ call[c].ref = <<"ID", i>>
                          \/ \E n \in call[c].moved : n \in call[c].names \ call'[c].names

\* When RemoveImage, asked with the ID of an image, says that it was removed, it
\* is gone, with its names; even if it was pulled again, under any tag, while its
\* names were removed.  It removes no other image, unless a tag from its list was
\* given to that image by a pull after the list was made.  Asked with anything
\* but an ID it removes nothing, and says that it has removed.
RemovesItsImage == [][RemovalTrue]_imageVars

\* What is said of an image was true.  ImageStatus reports one as absent only if
\* it was, at one of the two moments at which the daemon was asked, or if it was
\* asked with an ID that is not whole.  Where RunPodSandbox goes on the sandbox's
\* image is there, whichever credentials brought it, if nobody has removed images.
ImageAnswersTrue ==
  /\ \A c \in Callers : call[c].result = "nil" => call[c].lacking \/ call[c].ref[1] = "short"
  /\ \A p \in Pullers :
       pull[p].sandbox /\ pull[p].result = "ok" =>
         tagged[pull[p].tag] # NoID \/ \E c \in Callers : call[c].pc \in {"names", "removed", "error"}
=============================================================================
