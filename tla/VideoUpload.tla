----------------------------- MODULE VideoUpload -----------------------------
(***************************************************************************)
(* Uploading the video of a content: YouTubePublisher.upload_video with its *)
(* resumable session, and TwitterPublisher.upload_media with its segments,  *)
(* the far side of both, and the host the asset is streamed from.           *)
(*                                                                         *)
(* Bytes come in blocks.  The file_size of the asset's row and the length of *)
(* the file at its URL are two numbers.  One PUT, with the stream it forwards *)
(* and whatever becomes of it, is one step: the site has taken some of the  *)
(* blocks, and the publisher has an answer or none.                         *)
(***************************************************************************)
EXTENDS Integers

CONSTANTS
    Requests,   \* requests to publish; each uploads one video at most
    Retries,    \* retries of upload_video: 3
    MaxSize,    \* bound: blocks of a file
    MaxStalls   \* bound: answers of a site that tell of no progress

ASSUME UploadAssumption ==
    /\ Retries \in Nat \ {0}
    /\ MaxSize \in Nat
    /\ MaxStalls \in Nat

VARIABLES
    up,     \* the publisher's side of each upload
    site,   \* the provider's side of each upload
    noted   \* history: what happened that the code does not notice

uploadVars == <<up, site, noted>>

Ended == {"done", "raised"}
Upload ==
    [pc : {"idle", "sending", "asking", "appending", "polling"} \cup Ended,
     to : {"nobody", "youtube", "twitter"},
     size : 0 .. MaxSize,       \* file_size
     length : 0 .. MaxSize,     \* what the host has
     sent : 0 .. MaxSize,       \* uploaded_bytes, segment_index
     retries : 0 .. Retries,
     stalls : 0 .. MaxStalls]   \* answers that brought nothing
begun(to, pc, size, length) ==
    [pc |-> pc, to |-> to, size |-> size, length |-> length,
     sent |-> 0, retries |-> Retries, stalls |-> 0]
NotBegun == begun("nobody", "idle", 0, 0)

Site ==
    [got : 0 .. MaxSize,        \* blocks taken
     good : BOOLEAN,            \* each is the asset's block of that place
     processing : {"none", "pending", "succeeded", "failed"}]
Untouched == [got |-> 0, good |-> TRUE, processing |-> "none"]

\* silent: since the last answer by which YouTube lacks some of the video, an
\* exchange left none, or one that names neither the video nor what is missing;
\* ignored: the host sent the whole asset where a range was asked for;
\* unread: upload_media returned although Twitter had not said it succeeded.
Note == {"silent", "ignored", "unread"}

UploadInit ==
    /\ up = [q \in Requests |-> NotBegun]
    /\ site = [q \in Requests |-> Untouched]
    /\ noted = [q \in Requests |-> {}]

goto(q, pc) == up' = [up EXCEPT ![q].pc = pc]

-----------------------------------------------------------------------------
(***************************************************************************)
(* YouTube.  The POST that opens the session raises, or gives its address. *)
(***************************************************************************)
upload_video(q) ==
    /\ up[q].pc = "idle"
    /\ \E size, length \in 0 .. MaxSize, pc \in {"sending", "raised"} :
          up' = [up EXCEPT ![q] = begun("youtube", pc, size, length)]
    /\ UNCHANGED <<site, noted>>

InLoop(q) ==
    /\ up[q].pc = "sending"
    /\ up[q].sent < up[q].size
    /\ up[q].retries > 0

\* Where the stream from the host starts: at uploaded_bytes, asked for by
\* Range and answered by 206, or at 0, for 200 is accepted as well.
Sources(q) ==
    {0} \cup {from \in {up[q].sent} : from < up[q].length}

\* A body is as long as its Content-Length, or the client breaks off.
Fits(q, from) == up[q].length - from = up[q].size - up[q].sent

Takes(q, from) ==
    {k \in 0 .. up[q].size - up[q].sent : from + k <= up[q].length}

\* The blocks the site has once it took k for the places Content-Range names:
\* it may have had some of them before.
reached(q, k) ==
    IF up[q].sent + k > site[q].got THEN up[q].sent + k ELSE site[q].got

\* It has taken k blocks, which were read from the asset from that place on.
Taken(q, from, k) ==
    site' = [site EXCEPT
        ![q].got = reached(q, k),
        ![q].good = @ /\ (k > 0 => from = up[q].sent /\ up[q].sent <= site[q].got)]

Noting(q, from) ==
    IF from = up[q].sent THEN noted[q] ELSE noted[q] \cup {"ignored"}

PutComplete(q) ==
    /\ InLoop(q)
    /\ \E from \in Sources(q) :
          /\ Fits(q, from)
          /\ Taken(q, from, up[q].size - up[q].sent)
          /\ noted' = [noted EXCEPT ![q] = Noting(q, from) \ {"silent"}]
    /\ goto(q, "done")

\* What is known after a 308: that the site wants more, or, if its Range covers
\* the whole file, nothing about the video.
Told(q, received, notes) ==
    IF received = up[q].size THEN notes \cup {"silent"} ELSE notes \ {"silent"}

\* 308 with a Range: the loop goes on, and no retry is counted.
PutIncomplete(q) ==
    /\ InLoop(q)
    /\ \E from \in Sources(q) : \E k \in Takes(q, from) :
          LET received == reached(q, k)
              stalls == up[q].stalls + (IF received = up[q].sent THEN 1 ELSE 0)
          IN  /\ received > 0
              /\ stalls <= MaxStalls
              /\ Taken(q, from, k)
              /\ noted' = [noted EXCEPT ![q] = Told(q, received, Noting(q, from))]
              /\ up' = [up EXCEPT ![q].sent = received, ![q].stalls = stalls]

\* Any other answer below 400: the loop sends the same again, no retry counted.
PutUnread(q) ==
    /\ InLoop(q)
    /\ up[q].stalls < MaxStalls
    /\ \E from \in Sources(q) : \E k \in Takes(q, from) :
          /\ Taken(q, from, k)
          /\ noted' = [noted EXCEPT ![q] = Noting(q, from) \cup {"silent"}]
    /\ up' = [up EXCEPT ![q].stalls = @ + 1]

\* The retry is not counted.
OneRetryLessBug(q) == up' = [up EXCEPT ![q].pc = "asking"]

OneRetryLess(q) ==
    up' = [up EXCEPT ![q].retries = @ - 1,
                     ![q].pc = IF up[q].retries = 1 THEN "raised" ELSE "asking"]

\* A broken connection on either side, a body that does not fit, an error of
\* the host or of the site, an answer without an id or a Range.
PutFails(q) ==
    /\ InLoop(q)
    /\ \E from \in Sources(q) : \E k \in Takes(q, from) :
          /\ Taken(q, from, k)
          /\ noted' = [noted EXCEPT ![q] = Noting(q, from) \cup {"silent"}]
    /\ OneRetryLess(q)

\* 401 and 403 are no GoogleApiError and pass the handler.
PutForbidden(q) ==
    /\ InLoop(q)
    /\ goto(q, "raised")
    /\ UNCHANGED <<site, noted>>

LoopEnds(q) ==
    /\ up[q].pc = "sending"
    /\ up[q].sent >= up[q].size \/ up[q].retries = 0
    /\ goto(q, "raised")
    /\ UNCHANGED <<site, noted>>

\* The site knows the video is complete, and the upload starts over.
StatusCompleteBug(q) ==
    /\ up[q].pc = "asking"
    /\ site[q].got = up[q].size
    /\ noted' = [noted EXCEPT ![q] = @ \ {"silent"}]
    /\ goto(q, "raised")
    /\ UNCHANGED site

\* PUT with Content-Range */file_size: how far the site is.
StatusComplete(q) ==
    /\ up[q].pc = "asking"
    /\ site[q].got = up[q].size
    /\ noted' = [noted EXCEPT ![q] = @ \ {"silent"}]
    /\ goto(q, "done")
    /\ UNCHANGED site

\* What the site has is added to what was sent.
StatusIncompleteBug(q) ==
    /\ up[q].pc = "asking"
    /\ up' = [up EXCEPT ![q].sent = @ + site[q].got, ![q].pc = "sending"]
    /\ noted' = [noted EXCEPT ![q] = Told(q, site[q].got, @)]
    /\ UNCHANGED site

StatusIncomplete(q) ==
    /\ up[q].pc = "asking"
    /\ up' = [up EXCEPT ![q].sent = site[q].got, ![q].pc = "sending"]
    /\ noted' = [noted EXCEPT ![q] = Told(q, site[q].got, @)]
    /\ UNCHANGED site

\* Another answer below 400: the loop goes on from where it was.
StatusUnread(q) ==
    /\ up[q].pc = "asking"
    /\ goto(q, "sending")
    /\ UNCHANGED <<site, noted>>

\* Nothing catches what the status request raises.
StatusFails(q) ==
    /\ up[q].pc = "asking"
    /\ goto(q, "raised")
    /\ UNCHANGED <<site, noted>>

YouTubeStep(q) ==
    \/ PutComplete(q) \/ PutIncomplete(q) \/ PutUnread(q) \/ PutFails(q)
    \/ PutForbidden(q)
    \/ LoopEnds(q)
    \/ StatusComplete(q) \/ StatusIncomplete(q) \/ StatusUnread(q)
    \/ StatusFails(q)

-----------------------------------------------------------------------------
(***************************************************************************)
(* Twitter: INIT, one APPEND per block of the stream, FINALIZE, STATUS.     *)
(***************************************************************************)
upload_media(q) ==
    /\ up[q].pc = "idle"
    /\ \E size, length \in 0 .. MaxSize, pc \in {"appending", "raised"} :
          up' = [up EXCEPT ![q] = begun("twitter", pc, size, length)]
    /\ UNCHANGED <<site, noted>>

append(q) ==
    /\ up[q].pc = "appending"
    /\ up[q].sent < up[q].length
    /\ up' = [up EXCEPT ![q].sent = @ + 1]
    /\ site' = [site EXCEPT ![q].got = @ + 1]
    /\ UNCHANGED noted

\* Twitter finalizes what has the total_bytes of INIT.  The answer's state is
\* compared with pending and in_progress only.
finalize(q) ==
    /\ up[q].pc = "appending"
    /\ up[q].sent = up[q].length
    /\ site[q].got = up[q].size
    /\ \E p \in {"none", "pending", "succeeded", "failed"} :
          /\ site' = [site EXCEPT ![q].processing = p]
          /\ goto(q, IF p = "pending" THEN "polling" ELSE "done")
          /\ noted' = [noted EXCEPT ![q] = IF p = "failed" THEN {"unread"} ELSE {}]

afterPoll(p) ==
    CASE p = "pending" -> "polling"
      [] p = "succeeded" -> "done"
      [] p = "failed" -> "raised"

poll(q) ==
    /\ up[q].pc = "polling"
    /\ \E p \in {"pending", "succeeded", "failed"} :
          /\ site' = [site EXCEPT ![q].processing = p]
          /\ up[q].stalls < MaxStalls \/ p # "pending"
          /\ up' = [up EXCEPT ![q].pc = afterPoll(p),
                              ![q].stalls = IF p = "pending" THEN @ + 1 ELSE @]
    /\ UNCHANGED noted

\* An answer without processing_info ends the loop like a success.
PollSaysNothing(q) ==
    /\ up[q].pc = "polling"
    /\ goto(q, "done")
    /\ noted' = [noted EXCEPT ![q] = {"unread"}]
    /\ UNCHANGED site

\* The stream breaks, or a request of the four fails or is refused.
MediaFails(q) ==
    /\ up[q].pc \in {"appending", "polling"}
    /\ goto(q, "raised")
    /\ UNCHANGED <<site, noted>>

TwitterStep(q) ==
    append(q) \/ finalize(q) \/ poll(q) \/ PollSaysNothing(q) \/ MediaFails(q)

-----------------------------------------------------------------------------
UploadStep(q) == YouTubeStep(q) \/ TwitterStep(q)

UploadNext == \E q \in Requests : upload_video(q) \/ upload_media(q) \/ UploadStep(q)

UploadSpec == UploadInit /\ [][UploadNext]_uploadVars

-----------------------------------------------------------------------------
UploadTypeOK ==
    /\ up \in [Requests -> Upload]
    /\ site \in [Requests -> Site]
    /\ noted \in [Requests -> SUBSET Note]

\* What an upload that returned has left at the site: all of file_size.  Unless
\* the host ignored a range, these are the asset's own blocks in their order;
\* Twitter's media has all of them and is processed, unless the code did not
\* read the answer that says otherwise.
UploadedIsWhole ==
    \A q \in Requests : up[q].pc = "done" =>
        /\ site[q].got = up[q].size
        /\ "ignored" \notin noted[q] => site[q].good /\ up[q].size <= up[q].length
        /\ up[q].to = "twitter" =>
              /\ up[q].size = up[q].length
              /\ site[q].processing \in {"none", "succeeded"} \/ "unread" \in noted[q]

\* The video exists at the site.
Complete(q) ==
    /\ up[q].to = "youtube"
    /\ up[q].size > 0
    /\ site[q].got = up[q].size

\* upload_video raises although the site has the whole video only when its last
\* answers did not say so: what the status request tells is believed.
RaisedIsSilent ==
    \A q \in Requests :
        up[q].pc = "raised" /\ Complete(q) => "silent" \in noted[q]

\* How far an upload is, whichever of the two: its retries come first, then the
\* phase it is in, the blocks sent, and last the answers that brought nothing.
phase(u) == IF u.pc \in {"asking", "appending"} THEN 0 ELSE 1

Further(u, v) ==
    /\ u.pc \notin Ended
    /\ \/ v.pc \in Ended
       \/ v.retries < u.retries
       \/ v.retries = u.retries /\ phase(u) < phase(v)
       \/ v.retries = u.retries /\ phase(u) = phase(v) /\ u.sent < v.sent
       \/ /\ v.retries = u.retries
          /\ phase(u) = phase(v)
          /\ u.sent = v.sent
          /\ u.stalls < v.stalls

\* Why every upload ends: the loop that asks where to go on, and may be sent
\* back to the first block, pays for it with a retry; without one it sends more
\* of the file, or the site's answer told of no progress.  So an upload never
\* comes back to where it was, and one that returned or raised is left alone.
UploadsAdvance ==
    [][\A q \in Requests :
          up[q].pc # "idle" => up'[q] = up[q] \/ Further(up[q], up'[q])]_uploadVars

=============================================================================
