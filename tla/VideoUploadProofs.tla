------------------------- MODULE VideoUploadProofs -------------------------
(***************************************************************************)
(* Proofs about VideoUpload, for any requests, file sizes and retries.     *)
(***************************************************************************)
EXTENDS VideoUpload, TLAPS

\* One upload: u the publisher's side, s the site's, n what was noted.
Sound(u, s, n) ==
    /\ u.pc = "idle" => s = Untouched /\ n = {}
    /\ u.pc \in {"sending", "asking"} => u.to = "youtube" /\ u.retries > 0
    /\ u.pc \in {"appending", "polling"} => u.to = "twitter"
    /\ u.pc = "sending" =>
          /\ u.sent <= s.got /\ u.sent <= u.size
          /\ s.got = u.sent \/ "silent" \in n
          /\ u.sent < u.size \/ u.size = 0 \/ "silent" \in n
    /\ u.pc = "asking" =>
          /\ u.size > 0 /\ "silent" \in n
          /\ u.sent <= s.got /\ u.sent <= u.size
    /\ u.pc = "appending" =>
          s.got = u.sent /\ s.got <= u.length /\ s.processing = "none"
    /\ u.pc = "polling" => s.got = u.size /\ u.size = u.length
    /\ u.to = "youtube" => s.got <= u.size
    /\ u.to = "youtube" /\ u.pc = "done" => u.size > 0
    /\ u.to = "youtube" /\ "ignored" \notin n => s.good /\ s.got <= u.length
    /\ u.to = "twitter" => s.good

Whole(u, s, n) ==
    u.pc = "done" =>
        /\ s.got = u.size
        /\ "ignored" \notin n => s.good /\ u.size <= u.length
        /\ u.to = "twitter" =>
              /\ u.size = u.length
              /\ s.processing \in {"none", "succeeded"} \/ "unread" \in n

Silent(u, s, n) ==
    u.pc = "raised" /\ u.to = "youtube" /\ u.size > 0 /\ s.got = u.size
        => "silent" \in n

Fine(q) ==
    /\ Sound(up[q], site[q], noted[q])
    /\ Whole(up[q], site[q], noted[q])
    /\ Silent(up[q], site[q], noted[q])

UploadInv == UploadTypeOK /\ \A q \in Requests : Fine(q)

\* A step of one upload disturbs no other.
LEMMA OneUpload ==
    ASSUME UploadInv,
           NEW q \in Requests,
           NEW u \in Upload, NEW s \in Site, NEW n \in SUBSET Note,
           up' = [up EXCEPT ![q] = u],
           site' = [site EXCEPT ![q] = s],
           noted' = [noted EXCEPT ![q] = n],
           Sound(u, s, n), Whole(u, s, n), Silent(u, s, n)
    PROVE  UploadInv'
<1>1. UploadTypeOK'
  BY DEF UploadInv, UploadTypeOK
<1>2. ASSUME NEW r \in Requests PROVE Fine(r)'
  <2>1. CASE r = q
    BY <2>1 DEF UploadInv, UploadTypeOK, Fine
  <2>2. CASE r # q
    <3>1. up'[r] = up[r] /\ site'[r] = site[r] /\ noted'[r] = noted[r]
      BY <2>2 DEF UploadInv, UploadTypeOK
    <3>2. Fine(r)
      BY DEF UploadInv
    <3> QED
      BY <3>1, <3>2 DEF Fine
  <2> QED
    BY <2>1, <2>2
<1> QED
  BY <1>1, <1>2 DEF UploadInv

-----------------------------------------------------------------------------
\* One lemma per action: the fields it leaves behind, and why they are fine.
USE UploadAssumption

LEMMA Begun ==
    ASSUME NEW to \in {"youtube", "twitter"}, NEW pc \in {"sending", "appending", "raised"},
           NEW size \in 0 .. MaxSize, NEW length \in 0 .. MaxSize
    PROVE  LET u == begun(to, pc, size, length)
           IN  /\ u \in Upload /\ u.pc = pc /\ u.to = to /\ u.size = size
               /\ u.sent = 0 /\ u.retries = Retries /\ u.length = length
<1>1. Retries \in 0 .. Retries /\ 0 \in 0 .. MaxStalls /\ 0 \in 0 .. MaxSize
  BY UploadAssumption
<1>2. pc \in {"idle", "sending", "asking", "appending", "polling"} \cup Ended
  BY DEF Ended
<1>3. to \in {"nobody", "youtube", "twitter"}
  OBVIOUS
<1> QED
  BY <1>1, <1>2, <1>3 DEF Upload, begun

LEMMA UploadVideoKeeps ==
    ASSUME UploadInv, NEW q \in Requests, upload_video(q) PROVE UploadInv'
<1>1. PICK size \in 0 .. MaxSize, length \in 0 .. MaxSize, pc \in {"sending", "raised"} :
          up' = [up EXCEPT ![q] = begun("youtube", pc, size, length)]
  BY DEF upload_video
<1> DEFINE u == begun("youtube", pc, size, length)
<1>2. Fine(q) /\ up[q].pc = "idle" /\ site[q] \in Site /\ site \in [Requests -> Site]
      /\ noted \in [Requests -> SUBSET Note]
  BY DEF UploadInv, UploadTypeOK, upload_video
<1>3. u \in Upload /\ u.pc = pc /\ u.to = "youtube" /\ u.size = size /\ u.sent = 0
      /\ u.retries = Retries /\ u.length = length
  BY Begun
<1>4. site[q] = Untouched /\ noted[q] = {}
  BY <1>2 DEF Fine, Sound
<1>5. site' = [site EXCEPT ![q] = Untouched] /\ noted' = [noted EXCEPT ![q] = {}]
  BY <1>2, <1>4 DEF upload_video
<1>6. Untouched \in Site /\ Untouched.got = 0 /\ Untouched.good
  BY <1>2, <1>4 DEF Untouched
<1>7. Sound(u, Untouched, {}) /\ Whole(u, Untouched, {}) /\ Silent(u, Untouched, {})
  BY <1>3, <1>6 DEF Sound, Whole, Silent
<1>8. up' = [up EXCEPT ![q] = u]
  BY <1>1
<1> HIDE DEF u
<1> QED
  BY <1>3, <1>5, <1>6, <1>7, <1>8, OneUpload

LEMMA UploadMediaKeeps ==
    ASSUME UploadInv, NEW q \in Requests, upload_media(q) PROVE UploadInv'
<1>1. PICK size \in 0 .. MaxSize, length \in 0 .. MaxSize, pc \in {"appending", "raised"} :
          up' = [up EXCEPT ![q] = begun("twitter", pc, size, length)]
  BY DEF upload_media
<1> DEFINE u == begun("twitter", pc, size, length)
<1>2. Fine(q) /\ up[q].pc = "idle" /\ site[q] \in Site /\ site \in [Requests -> Site]
      /\ noted \in [Requests -> SUBSET Note]
  BY DEF UploadInv, UploadTypeOK, upload_media
<1>3. u \in Upload /\ u.pc = pc /\ u.to = "twitter" /\ u.size = size /\ u.sent = 0
      /\ u.length = length
  BY Begun
<1>4. site[q] = Untouched /\ noted[q] = {}
  BY <1>2 DEF Fine, Sound
<1>5. site' = [site EXCEPT ![q] = Untouched] /\ noted' = [noted EXCEPT ![q] = {}]
  BY <1>2, <1>4 DEF upload_media
<1>6. Untouched \in Site /\ Untouched.got = 0 /\ Untouched.good
      /\ Untouched.processing = "none"
  BY <1>2, <1>4 DEF Untouched
<1>7. Sound(u, Untouched, {}) /\ Whole(u, Untouched, {}) /\ Silent(u, Untouched, {})
  BY <1>3, <1>6 DEF Sound, Whole, Silent
<1>8. up' = [up EXCEPT ![q] = u]
  BY <1>1
<1> HIDE DEF u
<1> QED
  BY <1>3, <1>5, <1>6, <1>7, <1>8, OneUpload

\* The types of one upload, and that an EXCEPT of its fields is an EXCEPT of it.
LEMMA OneTyped ==
    ASSUME UploadInv, NEW q \in Requests
    PROVE  /\ up[q] \in Upload /\ site[q] \in Site /\ noted[q] \in SUBSET Note
           /\ up \in [Requests -> Upload] /\ site \in [Requests -> Site]
           /\ noted \in [Requests -> SUBSET Note]
           /\ Sound(up[q], site[q], noted[q])
           /\ Whole(up[q], site[q], noted[q])
           /\ Silent(up[q], site[q], noted[q])
  BY DEF UploadInv, UploadTypeOK, Fine

\* The fields of one upload, in arithmetic.
LEMMA Fields ==
    ASSUME NEW u \in Upload, NEW s \in Site
    PROVE  /\ u.size \in 0 .. MaxSize /\ u.length \in 0 .. MaxSize
           /\ u.sent \in 0 .. MaxSize /\ u.retries \in 0 .. Retries
           /\ u.stalls \in 0 .. MaxStalls
           /\ s.got \in 0 .. MaxSize /\ s.good \in BOOLEAN
           /\ s.processing \in {"none", "pending", "succeeded", "failed"}
  BY DEF Upload, Site

\* An upload that raises is fine where it was sound, and silent if it ends the
\* video.
LEMMA RaisesKeeps ==
    ASSUME UploadInv, NEW q \in Requests, goto(q, "raised"), UNCHANGED <<site, noted>>,
           up[q].pc # "idle",
           Silent([up[q] EXCEPT !.pc = "raised"], site[q], noted[q])
    PROVE  UploadInv'
<1> DEFINE u == [up[q] EXCEPT !.pc = "raised"]
<1>1. up[q] \in Upload /\ site[q] \in Site /\ noted[q] \in SUBSET Note
      /\ up \in [Requests -> Upload] /\ site \in [Requests -> Site]
      /\ noted \in [Requests -> SUBSET Note] /\ Sound(up[q], site[q], noted[q])
  BY OneTyped
<1>2. u \in Upload /\ u.pc = "raised" /\ u.to = up[q].to /\ u.size = up[q].size
      /\ u.length = up[q].length /\ u.sent = up[q].sent
  BY <1>1 DEF Upload, Ended
<1>3. up' = [up EXCEPT ![q] = u] /\ site' = [site EXCEPT ![q] = site[q]]
      /\ noted' = [noted EXCEPT ![q] = noted[q]]
  BY <1>1 DEF goto
<1>4. Sound(u, site[q], noted[q]) /\ Whole(u, site[q], noted[q])
  BY <1>1, <1>2 DEF Sound, Whole
<1>5. Silent(u, site[q], noted[q])
  OBVIOUS
<1> HIDE DEF u
<1> QED
  BY <1>1, <1>2, <1>3, <1>4, <1>5, OneUpload

-----------------------------------------------------------------------------
\* What a PUT leaves at the site, and what is noted about its stream.
LEMMA OnePut ==
    ASSUME UploadInv, NEW q \in Requests, InLoop(q),
           NEW from \in Sources(q), NEW k \in 0 .. up[q].size - up[q].sent,
           from + k <= up[q].length, Taken(q, from, k)
    PROVE  \E t \in Site :
               /\ site' = [site EXCEPT ![q] = t]
               /\ t.got = reached(q, k) /\ t.got <= up[q].size
               /\ up[q].sent + k <= t.got /\ t.got \in Nat
               /\ "ignored" \notin Noting(q, from) => t.good /\ t.got <= up[q].length
               /\ Noting(q, from) \in SUBSET Note
<1>1. up[q] \in Upload /\ site[q] \in Site /\ noted[q] \in SUBSET Note
      /\ site \in [Requests -> Site] /\ Sound(up[q], site[q], noted[q])
  BY OneTyped
<1>2. up[q].size \in 0 .. MaxSize /\ up[q].sent \in 0 .. MaxSize
      /\ up[q].length \in 0 .. MaxSize /\ site[q].good \in BOOLEAN
      /\ site[q].got \in 0 .. MaxSize
  BY <1>1, Fields
<1>3. /\ up[q].sent <= site[q].got /\ up[q].sent <= up[q].size
      /\ site[q].got <= up[q].size /\ up[q].to = "youtube"
  BY <1>1 DEF InLoop, Sound
<1>4. PICK got : got = reached(q, k)
  OBVIOUS
<1>5. /\ got \in 0 .. MaxSize /\ got <= up[q].size /\ up[q].sent + k <= got
      /\ got = up[q].sent + k \/ got = site[q].got
  BY <1>2, <1>3, <1>4, UploadAssumption DEF reached
<1>6. PICK good : good = (site[q].good /\ (k > 0 => from = up[q].sent
                                                   /\ up[q].sent <= site[q].got))
  OBVIOUS
<1>7. PICK t : t = [site[q] EXCEPT !.got = got, !.good = good]
  OBVIOUS
<1>8. t \in Site /\ t.got = got /\ t.good = good
  <2>1. good \in BOOLEAN
    BY <1>2, <1>6
  <2> QED
    BY <1>1, <1>5, <1>7, <2>1 DEF Site
<1>9. site' = [site EXCEPT ![q] = t]
  BY <1>1, <1>4, <1>6, <1>7 DEF Taken, Site
<1>10. Noting(q, from) \in SUBSET Note
  BY <1>1 DEF Noting, Note
<1>11. ASSUME "ignored" \notin Noting(q, from)
       PROVE  t.good /\ t.got <= up[q].length
  <2>1. from = up[q].sent /\ "ignored" \notin noted[q]
    BY <1>11 DEF Noting
  <2>2. site[q].good /\ site[q].got <= up[q].length
    BY <1>1, <1>3, <2>1 DEF Sound
  <2>3. t.good
    BY <1>3, <1>6, <1>8, <2>1, <2>2
  <2> QED
    BY <1>2, <1>5, <1>8, <2>1, <2>2, <2>3
<1>12. t.got = reached(q, k) /\ t.got <= up[q].size
       /\ up[q].sent + k <= t.got /\ t.got \in Nat
  BY <1>4, <1>5, <1>8
<1> USE <1>8
<1> WITNESS t \in Site
<1> QED
  BY <1>9, <1>10, <1>11, <1>12

LEMMA PutCompleteKeeps ==
    ASSUME UploadInv, NEW q \in Requests, PutComplete(q) PROVE UploadInv'
<1> DEFINE u == [up[q] EXCEPT !.pc = "done"]
           k == up[q].size - up[q].sent
<1>1. PICK from \in Sources(q) :
          /\ Fits(q, from) /\ Taken(q, from, up[q].size - up[q].sent)
          /\ noted' = [noted EXCEPT ![q] = Noting(q, from) \ {"silent"}]
  BY DEF PutComplete
<1>2. up[q] \in Upload /\ up \in [Requests -> Upload] /\ Sound(up[q], site[q], noted[q])
      /\ site[q] \in Site
  BY OneTyped
<1>3. up[q].size \in 0 .. MaxSize /\ up[q].sent \in 0 .. MaxSize
      /\ up[q].length \in 0 .. MaxSize /\ InLoop(q)
  BY <1>2, Fields DEF PutComplete
<1>4. from \in Int
  BY <1>3 DEF Sources
<1>5. k \in 0 .. up[q].size - up[q].sent /\ from + k <= up[q].length
  BY <1>1, <1>3, <1>4 DEF InLoop, Fits
<1>6. PICK t \in Site :
          /\ site' = [site EXCEPT ![q] = t]
          /\ t.got <= up[q].size /\ up[q].sent + k <= t.got /\ t.got \in Nat
          /\ "ignored" \notin Noting(q, from) => t.good /\ t.got <= up[q].length
          /\ Noting(q, from) \in SUBSET Note
  BY <1>1, <1>3, <1>5, OnePut
<1>7. u \in Upload /\ u.pc = "done" /\ u.to = "youtube" /\ u.size = up[q].size
      /\ u.length = up[q].length
  BY <1>2 DEF Upload, Ended, InLoop, PutComplete, Sound
<1>8. up' = [up EXCEPT ![q] = u]
  BY <1>2 DEF PutComplete, goto
<1>9. t.got = u.size /\ u.size > 0
  BY <1>3, <1>6, <1>7 DEF InLoop
<1>10. PICK n : n = Noting(q, from) \ {"silent"}
  OBVIOUS
<1>11. n \in SUBSET Note /\ ("ignored" \notin n => "ignored" \notin Noting(q, from))
  BY <1>6, <1>10
<1> HIDE DEF u, k
<1>12. Sound(u, t, n) /\ Whole(u, t, n) /\ Silent(u, t, n)
  BY <1>3, <1>6, <1>7, <1>9, <1>11 DEF Sound, Whole, Silent
<1> QED
  BY <1>1, <1>6, <1>7, <1>8, <1>10, <1>11, <1>12, OneUpload

\* What a 308 leaves to be known.
LEMMA ToldAll ==
    ASSUME NEW q \in Requests, NEW received, NEW notes \in SUBSET Note
    PROVE  /\ Told(q, received, notes) \in SUBSET Note
           /\ "ignored" \in notes => "ignored" \in Told(q, received, notes)
           /\ received = up[q].size => "silent" \in Told(q, received, notes)
  BY DEF Told, Note

LEMMA PutIncompleteKeeps ==
    ASSUME UploadInv, NEW q \in Requests, PutIncomplete(q) PROVE UploadInv'
<1> DEFINE more(k) == IF reached(q, k) = up[q].sent THEN 1 ELSE 0
<1>0. PICK from \in Sources(q) : \E k \in Takes(q, from) :
          /\ up[q].stalls + more(k) <= MaxStalls
          /\ Taken(q, from, k)
          /\ noted' = [noted EXCEPT ![q] = Told(q, reached(q, k), Noting(q, from))]
          /\ up' = [up EXCEPT ![q].sent = reached(q, k),
                              ![q].stalls = up[q].stalls + more(k)]
  BY DEF PutIncomplete
<1>1. PICK k \in Takes(q, from) :
          /\ up[q].stalls + more(k) <= MaxStalls
          /\ Taken(q, from, k)
          /\ noted' = [noted EXCEPT ![q] = Told(q, reached(q, k), Noting(q, from))]
          /\ up' = [up EXCEPT ![q].sent = reached(q, k),
                              ![q].stalls = up[q].stalls + more(k)]
  BY <1>0
<1>2. up[q] \in Upload /\ up \in [Requests -> Upload] /\ Sound(up[q], site[q], noted[q])
      /\ site[q] \in Site
  BY OneTyped
<1>3. up[q].size \in 0 .. MaxSize /\ up[q].sent \in 0 .. MaxSize
      /\ up[q].stalls \in 0 .. MaxStalls /\ InLoop(q)
  BY <1>2, Fields DEF PutIncomplete
<1>4. k \in 0 .. up[q].size - up[q].sent /\ from + k <= up[q].length
  BY DEF Takes
<1>5. PICK t \in Site :
          /\ site' = [site EXCEPT ![q] = t]
          /\ t.got = reached(q, k) /\ t.got <= up[q].size
          /\ up[q].sent + k <= t.got /\ t.got \in Nat
          /\ "ignored" \notin Noting(q, from) => t.good /\ t.got <= up[q].length
          /\ Noting(q, from) \in SUBSET Note
  BY <1>1, <1>3, <1>4, OnePut
<1>6. PICK stalls : stalls = up[q].stalls + more(k)
  OBVIOUS
<1>7. stalls \in 0 .. MaxStalls /\ t.got \in 0 .. MaxSize
  BY <1>1, <1>3, <1>5, <1>6, UploadAssumption
<1> HIDE DEF more
<1>8. PICK u : u = [up[q] EXCEPT !.sent = t.got, !.stalls = stalls]
  OBVIOUS
<1>9. u \in Upload /\ u.pc = "sending" /\ u.to = "youtube" /\ u.size = up[q].size
      /\ u.length = up[q].length /\ u.sent = t.got /\ u.retries = up[q].retries
      /\ u.retries > 0
  BY <1>2, <1>3, <1>7, <1>8 DEF Upload, InLoop, Sound
<1>10. up' = [up EXCEPT ![q] = u]
  BY <1>1, <1>2, <1>5, <1>6, <1>8 DEF Upload
<1>11. PICK n : n = Told(q, t.got, Noting(q, from))
  OBVIOUS
<1>12. n \in SUBSET Note /\ ("ignored" \notin n => "ignored" \notin Noting(q, from))
       /\ (t.got = up[q].size => "silent" \in n)
  BY <1>5, <1>11, ToldAll
<1>13. Sound(u, t, n) /\ Whole(u, t, n) /\ Silent(u, t, n)
  BY <1>3, <1>5, <1>9, <1>12 DEF Sound, Whole, Silent
<1> QED
  BY <1>1, <1>5, <1>9, <1>10, <1>11, <1>12, <1>13, OneUpload

LEMMA PutUnreadKeeps ==
    ASSUME UploadInv, NEW q \in Requests, PutUnread(q) PROVE UploadInv'
<1>0. PICK from \in Sources(q) : \E k \in Takes(q, from) :
          /\ Taken(q, from, k)
          /\ noted' = [noted EXCEPT ![q] = Noting(q, from) \cup {"silent"}]
  BY DEF PutUnread
<1>1. PICK k \in Takes(q, from) :
          /\ Taken(q, from, k)
          /\ noted' = [noted EXCEPT ![q] = Noting(q, from) \cup {"silent"}]
  BY <1>0
<1>2. up[q] \in Upload /\ up \in [Requests -> Upload] /\ Sound(up[q], site[q], noted[q])
      /\ site[q] \in Site
  BY OneTyped
<1>3. up[q].size \in 0 .. MaxSize /\ up[q].sent \in 0 .. MaxSize
      /\ up[q].stalls \in 0 .. MaxStalls /\ InLoop(q) /\ up[q].stalls < MaxStalls
  BY <1>2, Fields DEF PutUnread
<1>4. k \in 0 .. up[q].size - up[q].sent /\ from + k <= up[q].length
  BY DEF Takes
<1>5. PICK t \in Site :
          /\ site' = [site EXCEPT ![q] = t]
          /\ t.got <= up[q].size /\ up[q].sent + k <= t.got /\ t.got \in Nat
          /\ "ignored" \notin Noting(q, from) => t.good /\ t.got <= up[q].length
          /\ Noting(q, from) \in SUBSET Note
  BY <1>1, <1>3, <1>4, OnePut
<1>6. PICK u : u = [up[q] EXCEPT !.stalls = up[q].stalls + 1]
  OBVIOUS
<1>7. u \in Upload /\ u.pc = "sending" /\ u.to = "youtube" /\ u.size = up[q].size
      /\ u.length = up[q].length /\ u.sent = up[q].sent /\ u.retries > 0
  BY <1>2, <1>3, <1>6, UploadAssumption DEF Upload, InLoop, Sound
<1>8. up' = [up EXCEPT ![q] = u]
  BY <1>2, <1>6 DEF PutUnread
<1>9. PICK n : n = Noting(q, from) \cup {"silent"}
  OBVIOUS
<1>10. n \in SUBSET Note /\ "silent" \in n
       /\ ("ignored" \notin n => "ignored" \notin Noting(q, from))
  BY <1>5, <1>9 DEF Note
<1>11. u.sent <= t.got /\ u.sent <= u.size
  BY <1>3, <1>4, <1>5, <1>7
<1>12. Sound(u, t, n) /\ Whole(u, t, n) /\ Silent(u, t, n)
  BY <1>5, <1>7, <1>10, <1>11 DEF Sound, Whole, Silent
<1> QED
  BY <1>1, <1>5, <1>7, <1>8, <1>9, <1>10, <1>12, OneUpload

LEMMA PutFailsKeeps ==
    ASSUME UploadInv, NEW q \in Requests, PutFails(q) PROVE UploadInv'
<1>0. PICK from \in Sources(q) : \E k \in Takes(q, from) :
          /\ Taken(q, from, k)
          /\ noted' = [noted EXCEPT ![q] = Noting(q, from) \cup {"silent"}]
  BY DEF PutFails
<1>1. PICK k \in Takes(q, from) :
          /\ Taken(q, from, k)
          /\ noted' = [noted EXCEPT ![q] = Noting(q, from) \cup {"silent"}]
  BY <1>0
<1> DEFINE pc == IF up[q].retries = 1 THEN "raised" ELSE "asking"
           u == [up[q] EXCEPT !.retries = up[q].retries - 1, !.pc = pc]
           n == Noting(q, from) \cup {"silent"}
<1>2. up[q] \in Upload /\ up \in [Requests -> Upload] /\ Sound(up[q], site[q], noted[q])
      /\ site[q] \in Site
  BY OneTyped
<1>3. up[q].size \in 0 .. MaxSize /\ up[q].sent \in 0 .. MaxSize
      /\ up[q].retries \in 0 .. Retries /\ InLoop(q)
  BY <1>2, Fields DEF PutFails
<1>4. k \in 0 .. up[q].size - up[q].sent /\ from + k <= up[q].length
  BY DEF Takes
<1>5. PICK t \in Site :
          /\ site' = [site EXCEPT ![q] = t]
          /\ t.got <= up[q].size /\ up[q].sent + k <= t.got /\ t.got \in Nat
          /\ "ignored" \notin Noting(q, from) => t.good /\ t.got <= up[q].length
          /\ Noting(q, from) \in SUBSET Note
  BY <1>1, <1>3, <1>4, OnePut
<1>6. up[q].retries - 1 \in 0 .. Retries /\ (pc = "asking" => up[q].retries - 1 > 0)
      /\ pc \in {"asking", "raised"} /\ up[q].size > 0
  BY <1>3, UploadAssumption DEF InLoop
<1>7. u \in Upload /\ u.pc = pc /\ u.to = "youtube" /\ u.size = up[q].size
      /\ u.length = up[q].length /\ u.retries = up[q].retries - 1
      /\ u.sent = up[q].sent
  BY <1>2, <1>3, <1>6 DEF Upload, Ended, InLoop, Sound
<1>8. up' = [up EXCEPT ![q] = u]
  BY <1>2 DEF PutFails, OneRetryLess, Upload
<1>9. n \in SUBSET Note /\ "silent" \in n
      /\ ("ignored" \notin n => "ignored" \notin Noting(q, from))
  BY <1>5 DEF Note
<1>10. noted' = [noted EXCEPT ![q] = n]
  BY <1>1
<1> HIDE DEF u, pc, n
<1>11. u.sent <= t.got /\ u.sent <= u.size
  BY <1>3, <1>4, <1>5, <1>7
<1>12. Sound(u, t, n) /\ Whole(u, t, n) /\ Silent(u, t, n)
  BY <1>5, <1>6, <1>7, <1>9, <1>11 DEF Sound, Whole, Silent
<1> QED
  BY <1>5, <1>7, <1>8, <1>9, <1>10, <1>12, OneUpload

LEMMA YouTubeRaises ==
    ASSUME UploadInv, NEW q \in Requests,
           PutForbidden(q) \/ LoopEnds(q) \/ StatusFails(q)
    PROVE  UploadInv'
<1> DEFINE u == [up[q] EXCEPT !.pc = "raised"]
<1>1. up[q] \in Upload /\ site[q] \in Site /\ Sound(up[q], site[q], noted[q])
  BY OneTyped
<1>2. up[q].size \in 0 .. MaxSize /\ up[q].sent \in 0 .. MaxSize
      /\ up[q].retries \in 0 .. Retries
  BY <1>1, Fields
<1>3. u.size = up[q].size
  BY <1>1 DEF Upload
<1>4. goto(q, "raised") /\ UNCHANGED <<site, noted>> /\ up[q].pc \in {"sending", "asking"}
  BY DEF PutForbidden, LoopEnds, StatusFails, InLoop
<1>5. "silent" \in noted[q] \/ u.size = 0 \/ site[q].got < u.size
  <2>1. CASE PutForbidden(q)
    BY <1>1, <1>2, <1>3, <2>1 DEF PutForbidden, InLoop, Sound
  <2>2. CASE LoopEnds(q)
    BY <1>1, <1>2, <1>3, <2>2 DEF LoopEnds, Sound
  <2>3. CASE StatusFails(q)
    BY <1>1, <2>3 DEF StatusFails, Sound
  <2> QED
    BY <2>1, <2>2, <2>3
<1>6. Silent(u, site[q], noted[q])
  BY <1>2, <1>3, <1>5 DEF Silent
<1> QED
  BY <1>4, <1>6, RaisesKeeps

LEMMA StatusCompleteKeeps ==
    ASSUME UploadInv, NEW q \in Requests, StatusComplete(q) PROVE UploadInv'
<1> DEFINE u == [up[q] EXCEPT !.pc = "done"]
           n == noted[q] \ {"silent"}
<1>1. up[q] \in Upload /\ site[q] \in Site /\ noted[q] \in SUBSET Note
      /\ up \in [Requests -> Upload] /\ site \in [Requests -> Site]
      /\ noted \in [Requests -> SUBSET Note] /\ Sound(up[q], site[q], noted[q])
  BY OneTyped
<1>2. u \in Upload /\ u.pc = "done" /\ u.to = "youtube" /\ u.size = up[q].size
      /\ u.length = up[q].length /\ n \in SUBSET Note /\ site[q].got = u.size
      /\ u.size > 0
  BY <1>1 DEF Upload, Ended, StatusComplete, Sound
<1>3. up' = [up EXCEPT ![q] = u] /\ site' = [site EXCEPT ![q] = site[q]]
      /\ noted' = [noted EXCEPT ![q] = n]
  BY <1>1 DEF StatusComplete, goto
<1>4. "ignored" \notin n => "ignored" \notin noted[q]
  OBVIOUS
<1>5. up[q].to = "youtube"
  BY <1>1 DEF Sound, StatusComplete
<1> HIDE DEF u, n
<1>6. Sound(u, site[q], n) /\ Whole(u, site[q], n) /\ Silent(u, site[q], n)
  BY <1>1, <1>2, <1>4, <1>5 DEF Sound, Whole, Silent
<1> QED
  BY <1>1, <1>2, <1>3, <1>6, OneUpload

LEMMA StatusIncompleteKeeps ==
    ASSUME UploadInv, NEW q \in Requests, StatusIncomplete(q) PROVE UploadInv'
<1>1. up[q] \in Upload /\ site[q] \in Site /\ noted[q] \in SUBSET Note
      /\ up \in [Requests -> Upload] /\ site \in [Requests -> Site]
      /\ noted \in [Requests -> SUBSET Note] /\ Sound(up[q], site[q], noted[q])
  BY OneTyped
<1>2. site[q].got \in 0 .. MaxSize /\ up[q].size \in 0 .. MaxSize
  BY <1>1, Fields
<1>3. PICK u : u = [up[q] EXCEPT !.sent = site[q].got, !.pc = "sending"]
  OBVIOUS
<1>4. PICK n : n = Told(q, site[q].got, noted[q])
  OBVIOUS
<1>5. u \in Upload /\ u.pc = "sending" /\ u.to = "youtube" /\ u.size = up[q].size
      /\ u.length = up[q].length /\ u.sent = site[q].got /\ u.retries > 0
  BY <1>1, <1>3 DEF Upload, Site, StatusIncomplete, Sound
<1>6. n \in SUBSET Note /\ ("ignored" \notin n => "ignored" \notin noted[q])
      /\ (site[q].got = up[q].size => "silent" \in n)
  BY <1>1, <1>4, ToldAll
<1>7. up' = [up EXCEPT ![q] = u] /\ site' = [site EXCEPT ![q] = site[q]]
      /\ noted' = [noted EXCEPT ![q] = n]
  BY <1>1, <1>3, <1>4 DEF StatusIncomplete, Upload
<1>8. up[q].to = "youtube" /\ site[q].got <= up[q].size
  BY <1>1 DEF Sound, StatusIncomplete
<1>9. Sound(u, site[q], n) /\ Whole(u, site[q], n) /\ Silent(u, site[q], n)
  BY <1>1, <1>2, <1>5, <1>6, <1>8 DEF Sound, Whole, Silent
<1> QED
  BY <1>1, <1>5, <1>6, <1>7, <1>9, OneUpload

\* Nothing told, nothing changed: what was sent is still there.
LEMMA StatusUnreadKeeps ==
    ASSUME UploadInv, NEW q \in Requests, StatusUnread(q) PROVE UploadInv'
<1>1. up[q] \in Upload /\ site[q] \in Site /\ noted[q] \in SUBSET Note
      /\ up \in [Requests -> Upload] /\ site \in [Requests -> Site]
      /\ noted \in [Requests -> SUBSET Note] /\ Sound(up[q], site[q], noted[q])
  BY OneTyped
<1>2. PICK u : u = [up[q] EXCEPT !.pc = "sending"]
  OBVIOUS
<1>3. u \in Upload /\ u.pc = "sending" /\ u.to = "youtube" /\ u.size = up[q].size
      /\ u.length = up[q].length /\ u.sent = up[q].sent /\ u.retries > 0
  BY <1>1, <1>2 DEF Upload, StatusUnread, Sound
<1>4. up' = [up EXCEPT ![q] = u] /\ site' = [site EXCEPT ![q] = site[q]]
      /\ noted' = [noted EXCEPT ![q] = noted[q]]
  BY <1>1, <1>2 DEF StatusUnread, goto
<1>5. /\ up[q].to = "youtube" /\ "silent" \in noted[q]
      /\ up[q].sent <= site[q].got /\ up[q].sent <= up[q].size
  BY <1>1 DEF Sound, StatusUnread
<1>6. Sound(u, site[q], noted[q]) /\ Whole(u, site[q], noted[q])
      /\ Silent(u, site[q], noted[q])
  BY <1>1, <1>3, <1>5 DEF Sound, Whole, Silent
<1> QED
  BY <1>1, <1>3, <1>4, <1>6, OneUpload

LEMMA YouTubeKeeps ==
    ASSUME UploadInv, NEW q \in Requests, YouTubeStep(q) PROVE UploadInv'
  BY PutCompleteKeeps, PutIncompleteKeeps, PutUnreadKeeps, PutFailsKeeps,
     YouTubeRaises, StatusCompleteKeeps, StatusIncompleteKeeps, StatusUnreadKeeps
  DEF YouTubeStep

-----------------------------------------------------------------------------
LEMMA AppendKeeps ==
    ASSUME UploadInv, NEW q \in Requests, append(q) PROVE UploadInv'
<1> DEFINE u == [up[q] EXCEPT !.sent = up[q].sent + 1]
           s == [site[q] EXCEPT !.got = site[q].got + 1]
<1>1. up[q] \in Upload /\ site[q] \in Site /\ noted[q] \in SUBSET Note
      /\ up \in [Requests -> Upload] /\ site \in [Requests -> Site]
      /\ noted \in [Requests -> SUBSET Note] /\ Sound(up[q], site[q], noted[q])
  BY OneTyped
<1>2. up[q].sent \in 0 .. MaxSize /\ up[q].length \in 0 .. MaxSize
      /\ site[q].got \in 0 .. MaxSize
  BY <1>1, Fields
<1>3. up[q].pc = "appending" /\ up[q].to = "twitter" /\ up[q].sent = site[q].got
      /\ up[q].sent < up[q].length /\ site[q].processing = "none" /\ site[q].good
  BY <1>1 DEF append, Sound
<1>4. up[q].sent + 1 \in 0 .. MaxSize
  BY <1>2, <1>3, UploadAssumption
<1>5. u \in Upload /\ u.pc = "appending" /\ u.to = "twitter" /\ u.size = up[q].size
      /\ u.length = up[q].length /\ u.sent = up[q].sent + 1
  BY <1>1, <1>3, <1>4 DEF Upload
<1>6. s \in Site /\ s.got = up[q].sent + 1 /\ s.good /\ s.processing = "none"
  BY <1>1, <1>3, <1>4 DEF Site
<1>7. up' = [up EXCEPT ![q] = u] /\ site' = [site EXCEPT ![q] = s]
      /\ noted' = [noted EXCEPT ![q] = noted[q]]
  BY <1>1 DEF append, Upload, Site
<1>8. s.got <= u.length
  BY <1>2, <1>3, <1>5, <1>6
<1> HIDE DEF u, s
<1>9. Sound(u, s, noted[q]) /\ Whole(u, s, noted[q]) /\ Silent(u, s, noted[q])
  BY <1>5, <1>6, <1>8 DEF Sound, Whole, Silent
<1> QED
  BY <1>1, <1>5, <1>6, <1>7, <1>9, OneUpload

LEMMA FinalizeKeeps ==
    ASSUME UploadInv, NEW q \in Requests, finalize(q) PROVE UploadInv'
<1>1. PICK p \in {"none", "pending", "succeeded", "failed"} :
          /\ site' = [site EXCEPT ![q].processing = p]
          /\ goto(q, IF p = "pending" THEN "polling" ELSE "done")
          /\ noted' = [noted EXCEPT ![q] = IF p = "failed" THEN {"unread"} ELSE {}]
  BY DEF finalize
<1> DEFINE pc == IF p = "pending" THEN "polling" ELSE "done"
           u == [up[q] EXCEPT !.pc = pc]
           s == [site[q] EXCEPT !.processing = p]
           n == IF p = "failed" THEN {"unread"} ELSE {}
<1>2. up[q] \in Upload /\ site[q] \in Site
      /\ up \in [Requests -> Upload] /\ site \in [Requests -> Site]
      /\ noted \in [Requests -> SUBSET Note] /\ Sound(up[q], site[q], noted[q])
  BY OneTyped
<1>3. up[q].pc = "appending" /\ up[q].to = "twitter" /\ up[q].sent = site[q].got
      /\ up[q].sent = up[q].length /\ site[q].got = up[q].size /\ site[q].good
  BY <1>2 DEF finalize, Sound
<1>4. u \in Upload /\ u.pc = pc /\ u.to = "twitter" /\ u.size = up[q].size
      /\ u.length = up[q].size /\ pc \in {"polling", "done"} /\ u.size \in 0 .. MaxSize
  BY <1>2, <1>3 DEF Upload, Ended
<1>5. s \in Site /\ s.got = u.size /\ s.good /\ s.processing = p
  BY <1>2, <1>3, <1>4 DEF Site
<1>6. n \in SUBSET Note
  BY DEF Note
<1>7. up' = [up EXCEPT ![q] = u] /\ site' = [site EXCEPT ![q] = s]
      /\ noted' = [noted EXCEPT ![q] = n]
  BY <1>1, <1>2 DEF goto, Upload, Site
<1>8. pc = "done" => p \in {"none", "succeeded"} \/ "unread" \in n
  OBVIOUS
<1> HIDE DEF u, s, n, pc
<1>9. Sound(u, s, n) /\ Whole(u, s, n) /\ Silent(u, s, n)
  BY <1>4, <1>5, <1>8 DEF Sound, Whole, Silent
<1> QED
  BY <1>4, <1>5, <1>6, <1>7, <1>9, OneUpload

LEMMA PollKeeps ==
    ASSUME UploadInv, NEW q \in Requests, poll(q) PROVE UploadInv'
<1>1. PICK p \in {"pending", "succeeded", "failed"} :
          /\ site' = [site EXCEPT ![q].processing = p]
          /\ up[q].stalls < MaxStalls \/ p # "pending"
          /\ up' = [up EXCEPT ![q].pc = afterPoll(p),
                              ![q].stalls = IF p = "pending" THEN @ + 1 ELSE @]
  BY DEF poll
<1> DEFINE stalls == IF p = "pending" THEN up[q].stalls + 1 ELSE up[q].stalls
           u == [up[q] EXCEPT !.pc = afterPoll(p), !.stalls = stalls]
           s == [site[q] EXCEPT !.processing = p]
<1>2. up[q] \in Upload /\ site[q] \in Site /\ noted[q] \in SUBSET Note
      /\ up \in [Requests -> Upload] /\ site \in [Requests -> Site]
      /\ noted \in [Requests -> SUBSET Note] /\ Sound(up[q], site[q], noted[q])
  BY OneTyped
<1>3. up[q].stalls \in 0 .. MaxStalls
  BY <1>2, Fields
<1>4. up[q].pc = "polling" /\ up[q].to = "twitter" /\ up[q].size = up[q].length
      /\ site[q].got = up[q].size /\ site[q].good
  BY <1>2 DEF poll, Sound
<1>5. stalls \in 0 .. MaxStalls
  BY <1>1, <1>3, UploadAssumption
<1>6. afterPoll(p) \in {"polling", "done", "raised"}
      /\ (afterPoll(p) = "done" => p = "succeeded")
  BY DEF afterPoll
<1> HIDE DEF stalls
<1>7. u \in Upload /\ u.pc = afterPoll(p) /\ u.to = "twitter" /\ u.size = up[q].size
      /\ u.length = up[q].size /\ u.size \in 0 .. MaxSize
  BY <1>2, <1>4, <1>5, <1>6 DEF Upload, Ended
<1>8. s \in Site /\ s.got = u.size /\ s.good /\ s.processing = p
  BY <1>2, <1>4, <1>7 DEF Site
<1>9. up' = [up EXCEPT ![q] = u] /\ site' = [site EXCEPT ![q] = s]
      /\ noted' = [noted EXCEPT ![q] = noted[q]]
  BY <1>1, <1>2 DEF poll, Upload, Site, stalls
<1> HIDE DEF u, s
<1>10. Sound(u, s, noted[q]) /\ Whole(u, s, noted[q]) /\ Silent(u, s, noted[q])
  BY <1>6, <1>7, <1>8 DEF Sound, Whole, Silent
<1> QED
  BY <1>2, <1>7, <1>8, <1>9, <1>10, OneUpload

LEMMA PollSaysNothingKeeps ==
    ASSUME UploadInv, NEW q \in Requests, PollSaysNothing(q) PROVE UploadInv'
<1> DEFINE u == [up[q] EXCEPT !.pc = "done"]
<1>1. up[q] \in Upload /\ site[q] \in Site
      /\ up \in [Requests -> Upload] /\ site \in [Requests -> Site]
      /\ noted \in [Requests -> SUBSET Note] /\ Sound(up[q], site[q], noted[q])
  BY OneTyped
<1>2. up[q].to = "twitter" /\ up[q].size = up[q].length /\ site[q].got = up[q].size
      /\ site[q].good
  BY <1>1 DEF PollSaysNothing, Sound
<1>3. u \in Upload /\ u.pc = "done" /\ u.to = "twitter" /\ u.size = up[q].size
      /\ u.length = up[q].size /\ u.size \in 0 .. MaxSize
  BY <1>1, <1>2 DEF Upload, Ended
<1>4. up' = [up EXCEPT ![q] = u] /\ site' = [site EXCEPT ![q] = site[q]]
      /\ noted' = [noted EXCEPT ![q] = {"unread"}]
  BY <1>1 DEF PollSaysNothing, goto
<1>5. {"unread"} \in SUBSET Note
  BY DEF Note
<1> HIDE DEF u
<1>6. Sound(u, site[q], {"unread"}) /\ Whole(u, site[q], {"unread"})
      /\ Silent(u, site[q], {"unread"})
  BY <1>2, <1>3 DEF Sound, Whole, Silent
<1> QED
  BY <1>1, <1>3, <1>4, <1>5, <1>6, OneUpload

LEMMA MediaFailsKeeps ==
    ASSUME UploadInv, NEW q \in Requests, MediaFails(q) PROVE UploadInv'
<1>1. up[q] \in Upload /\ Sound(up[q], site[q], noted[q])
  BY OneTyped
<1>2. up[q].to = "twitter" /\ up[q].pc # "idle"
  BY <1>1 DEF MediaFails, Sound
<1>3. Silent([up[q] EXCEPT !.pc = "raised"], site[q], noted[q])
  BY <1>1, <1>2 DEF Silent, Upload
<1> QED
  BY <1>2, <1>3, RaisesKeeps DEF MediaFails

LEMMA TwitterKeeps ==
    ASSUME UploadInv, NEW q \in Requests, TwitterStep(q) PROVE UploadInv'
  BY AppendKeeps, FinalizeKeeps, PollKeeps, PollSaysNothingKeeps, MediaFailsKeeps
  DEF TwitterStep

-----------------------------------------------------------------------------
LEMMA UploadInvInit == UploadInit => UploadInv
<1> SUFFICES ASSUME UploadInit PROVE UploadInv
  OBVIOUS
<1>1. NotBegun \in Upload /\ NotBegun.pc = "idle" /\ NotBegun.to = "nobody"
  BY DEF NotBegun, begun, Upload
<1>2. Untouched \in Site
  BY DEF Untouched, Site
<1>3. UploadTypeOK
  BY <1>1, <1>2 DEF UploadInit, UploadTypeOK
<1>4. ASSUME NEW q \in Requests PROVE Fine(q)
  BY <1>1 DEF UploadInit, Fine, Sound, Whole, Silent
<1> QED
  BY <1>3, <1>4 DEF UploadInv

LEMMA UploadInvNext == UploadInv /\ [UploadNext]_uploadVars => UploadInv'
<1> SUFFICES ASSUME UploadInv, [UploadNext]_uploadVars PROVE UploadInv'
  OBVIOUS
<1>1. CASE UploadNext
  BY <1>1, UploadVideoKeeps, UploadMediaKeeps, YouTubeKeeps, TwitterKeeps
  DEF UploadNext, UploadStep
<1>2. CASE UNCHANGED uploadVars
  BY <1>2 DEF uploadVars, UploadInv, UploadTypeOK, Fine
<1> QED
  BY <1>1, <1>2

LEMMA UploadInvImplies ==
    UploadInv => UploadTypeOK /\ UploadedIsWhole /\ RaisedIsSilent
  BY DEF UploadInv, Fine, Whole, Silent, UploadedIsWhole, RaisedIsSilent, Complete

\* Every upload's two sides keep their shapes and bounds.
THEOREM UploadTypeCorrect == UploadSpec => []UploadTypeOK
  BY UploadInvInit, UploadInvNext, UploadInvImplies, PTL DEF UploadSpec

\* What upload_video and upload_media return from is whole at the site, for
\* every file, every length of the host's copy and every number of retries:
\* nothing is sent twice or left out however the exchanges with it break off.
THEOREM UploadsAreWhole == UploadSpec => []UploadedIsWhole
  BY UploadInvInit, UploadInvNext, UploadInvImplies, PTL DEF UploadSpec

\* upload_video raises over a finished video only when the site's last
\* answers did not say so.
THEOREM RaisesAreSilent == UploadSpec => []RaisedIsSilent
  BY UploadInvInit, UploadInvNext, UploadInvImplies, PTL DEF UploadSpec

-----------------------------------------------------------------------------
(***************************************************************************)
(* Progress.  Each step of one upload leads Further, and changes no other; *)
(* the fields are bounded, so the order has no endless ascent.             *)
(***************************************************************************)
\* A step of one upload that takes it to v.
LEMMA OneAdvances ==
    ASSUME UploadTypeOK, NEW q \in Requests, NEW v,
           up' = [up EXCEPT ![q] = v], Further(up[q], v)
    PROVE  \A r \in Requests : up'[r] = up[r] \/ Further(up[r], up'[r])
<1>1. up \in [Requests -> Upload]
  BY DEF UploadTypeOK
<1> QED BY <1>1

\* One that changes nothing but the place, to a later one.
LEMMA PlaceAdvances ==
    ASSUME UploadTypeOK, NEW q \in Requests, NEW pc, goto(q, pc),
           up[q].pc \notin Ended,
           pc \in Ended \/ (up[q].pc = "appending" /\ pc = "polling")
    PROVE  \A r \in Requests : up'[r] = up[r] \/ Further(up[r], up'[r])
<1> DEFINE v == [up[q] EXCEPT !.pc = pc]
<1>1. up \in [Requests -> Upload] /\ up[q] \in Upload
  BY DEF UploadTypeOK
<1>2. v.pc = pc /\ v.retries = up[q].retries
  BY <1>1 DEF Upload
<1>3. up' = [up EXCEPT ![q] = v]
  BY <1>1 DEF goto
<1> HIDE DEF v
<1>4. Further(up[q], v)
  <2>1. CASE pc \in Ended
    BY <1>2, <2>1 DEF Further
  <2>2. CASE up[q].pc = "appending" /\ pc = "polling"
    <3>1. phase(up[q]) = 0 /\ phase(v) = 1
      BY <1>2, <2>2 DEF phase
    <3> QED BY <1>2, <3>1 DEF Further
  <2> QED BY <2>1, <2>2
<1> QED BY <1>3, <1>4, OneAdvances

\* YouTube: a retry is paid before the site is asked, and the answer goes back
\* to sending; any other answer brings more of the file, or counts as a stall.
LEMMA YouTubeAdvances ==
    ASSUME UploadTypeOK, NEW q \in Requests, YouTubeStep(q)
    PROVE  \A r \in Requests : up'[r] = up[r] \/ Further(up[r], up'[r])
<1>1. up \in [Requests -> Upload] /\ up[q] \in Upload
  BY DEF UploadTypeOK
<1>2. /\ up[q].sent \in 0 .. MaxSize /\ up[q].size \in 0 .. MaxSize
      /\ up[q].retries \in 0 .. Retries /\ up[q].stalls \in 0 .. MaxStalls
  BY <1>1 DEF Upload
<1>3. CASE PutComplete(q) \/ StatusComplete(q)
  <2>1. goto(q, "done") /\ up[q].pc \in {"sending", "asking"}
    BY <1>3 DEF PutComplete, StatusComplete, InLoop
  <2> QED BY <2>1, PlaceAdvances DEF Ended
<1>4. CASE PutForbidden(q) \/ LoopEnds(q) \/ StatusFails(q)
  <2>1. goto(q, "raised") /\ up[q].pc \in {"sending", "asking"}
    BY <1>4 DEF PutForbidden, LoopEnds, StatusFails, InLoop
  <2> QED BY <2>1, PlaceAdvances DEF Ended
<1>5. CASE PutIncomplete(q)
  <2> DEFINE more(k) == up[q].stalls + (IF reached(q, k) = up[q].sent THEN 1 ELSE 0)
  <2>1. PICK from \in Sources(q) : \E k \in Takes(q, from) :
            up' = [up EXCEPT ![q].sent = reached(q, k), ![q].stalls = more(k)]
    BY <1>5 DEF PutIncomplete
  <2>2. PICK k \in Takes(q, from) :
            up' = [up EXCEPT ![q].sent = reached(q, k), ![q].stalls = more(k)]
    BY <2>1
  <2>3. k \in Nat /\ up[q].pc = "sending"
    BY <1>2, <1>5 DEF Takes, PutIncomplete, InLoop
  <2>4. site[q].got \in 0 .. MaxSize
    BY DEF UploadTypeOK, Site
  <2>5. reached(q, k) \in Int /\ up[q].sent <= reached(q, k)
    BY <1>2, <2>3, <2>4, UploadAssumption DEF reached
  <2> DEFINE v == [up[q] EXCEPT !.sent = reached(q, k), !.stalls = more(k)]
  <2>6. up' = [up EXCEPT ![q] = v]
    BY <1>1, <2>2
  <2>7. /\ v.pc = "sending" /\ v.retries = up[q].retries
        /\ v.sent = reached(q, k) /\ v.stalls = more(k)
    BY <1>1, <2>3 DEF Upload
  <2> HIDE DEF v
  <2>8. phase(up[q]) = phase(v)
    BY <2>3, <2>7 DEF phase
  <2>9. up[q].sent < v.sent \/ (up[q].sent = v.sent /\ up[q].stalls < v.stalls)
    BY <1>2, <2>5, <2>7
  <2>10. Further(up[q], v)
    BY <2>3, <2>7, <2>8, <2>9 DEF Further, Ended
  <2> QED BY <2>6, <2>10, OneAdvances
<1>6. CASE PutFails(q)
  <2> DEFINE v == [up[q] EXCEPT !.retries = up[q].retries - 1,
                                !.pc = IF up[q].retries = 1 THEN "raised" ELSE "asking"]
  <2>1. up' = [up EXCEPT ![q] = v]
    BY <1>1, <1>6 DEF PutFails, OneRetryLess
  <2>2. v.retries = up[q].retries - 1 /\ up[q].pc = "sending"
    BY <1>1, <1>6 DEF Upload, PutFails, InLoop
  <2> HIDE DEF v
  <2>3. v.retries < up[q].retries
    BY <1>2, <2>2
  <2>4. Further(up[q], v)
    BY <2>2, <2>3 DEF Further, Ended
  <2> QED BY <2>1, <2>4, OneAdvances
<1>7. CASE StatusIncomplete(q)
  <2> DEFINE v == [up[q] EXCEPT !.sent = site[q].got, !.pc = "sending"]
  <2>1. up' = [up EXCEPT ![q] = v]
    BY <1>1, <1>7 DEF StatusIncomplete
  <2>2. v.retries = up[q].retries /\ v.pc = "sending" /\ up[q].pc = "asking"
    BY <1>1, <1>7 DEF Upload, StatusIncomplete
  <2> HIDE DEF v
  <2>3. phase(up[q]) = 0 /\ phase(v) = 1
    BY <2>2 DEF phase
  <2>4. Further(up[q], v)
    BY <2>2, <2>3 DEF Further, Ended
  <2> QED BY <2>1, <2>4, OneAdvances
<1>8. CASE PutUnread(q)
  <2> DEFINE v == [up[q] EXCEPT !.stalls = up[q].stalls + 1]
  <2>1. up' = [up EXCEPT ![q] = v] /\ up[q].pc = "sending"
    BY <1>1, <1>8 DEF PutUnread, InLoop
  <2>2. /\ v.pc = "sending" /\ v.retries = up[q].retries /\ v.sent = up[q].sent
        /\ v.stalls = up[q].stalls + 1
    BY <1>1, <2>1 DEF Upload
  <2> HIDE DEF v
  <2>3. phase(up[q]) = phase(v) /\ up[q].stalls < v.stalls
    BY <1>2, <2>1, <2>2 DEF phase
  <2>4. Further(up[q], v)
    BY <2>1, <2>2, <2>3 DEF Further, Ended
  <2> QED BY <2>1, <2>4, OneAdvances
<1>9. CASE StatusUnread(q)
  <2> DEFINE v == [up[q] EXCEPT !.pc = "sending"]
  <2>1. up' = [up EXCEPT ![q] = v] /\ up[q].pc = "asking"
    BY <1>1, <1>9 DEF StatusUnread, goto
  <2>2. v.retries = up[q].retries /\ v.pc = "sending"
    BY <1>1 DEF Upload
  <2> HIDE DEF v
  <2>3. phase(up[q]) = 0 /\ phase(v) = 1
    BY <2>1, <2>2 DEF phase
  <2>4. Further(up[q], v)
    BY <2>1, <2>2, <2>3 DEF Further, Ended
  <2> QED BY <2>1, <2>4, OneAdvances
<1> QED BY <1>3, <1>4, <1>5, <1>6, <1>7, <1>8, <1>9 DEF YouTubeStep

\* Twitter: one block more of the stream, then the answers of STATUS.
LEMMA TwitterAdvances ==
    ASSUME UploadTypeOK, NEW q \in Requests, TwitterStep(q)
    PROVE  \A r \in Requests : up'[r] = up[r] \/ Further(up[r], up'[r])
<1>1. up \in [Requests -> Upload] /\ up[q] \in Upload
  BY DEF UploadTypeOK
<1>2. up[q].sent \in 0 .. MaxSize /\ up[q].stalls \in 0 .. MaxStalls
  BY <1>1 DEF Upload
<1>3. CASE append(q)
  <2> DEFINE v == [up[q] EXCEPT !.sent = up[q].sent + 1]
  <2>1. up' = [up EXCEPT ![q] = v] /\ up[q].pc = "appending"
    BY <1>1, <1>3 DEF append
  <2>2. v.retries = up[q].retries /\ v.pc = "appending" /\ v.sent = up[q].sent + 1
    BY <1>1, <2>1 DEF Upload
  <2> HIDE DEF v
  <2>3. phase(up[q]) = phase(v) /\ up[q].sent < v.sent
    BY <1>2, <2>1, <2>2 DEF phase
  <2>4. Further(up[q], v)
    BY <2>1, <2>2, <2>3 DEF Further, Ended
  <2> QED BY <2>1, <2>4, OneAdvances
<1>4. CASE finalize(q)
  <2>1. up[q].pc = "appending" /\ (goto(q, "polling") \/ goto(q, "done"))
    BY <1>4 DEF finalize
  <2> QED BY <2>1, PlaceAdvances DEF Ended
<1>5. CASE PollSaysNothing(q) \/ MediaFails(q)
  <2>1. up[q].pc \in {"appending", "polling"} /\ (goto(q, "raised") \/ goto(q, "done"))
    BY <1>5 DEF PollSaysNothing, MediaFails
  <2> QED BY <2>1, PlaceAdvances DEF Ended
<1>6. CASE poll(q)
  <2>1. PICK p \in {"pending", "succeeded", "failed"} :
            up' = [up EXCEPT ![q].pc = afterPoll(p),
                             ![q].stalls = IF p = "pending" THEN up[q].stalls + 1
                                           ELSE up[q].stalls]
    BY <1>6 DEF poll
  <2>2. up[q].pc = "polling"
    BY <1>6 DEF poll
  <2> DEFINE v == [up[q] EXCEPT !.pc = afterPoll(p),
                                !.stalls = IF p = "pending" THEN up[q].stalls + 1
                                           ELSE up[q].stalls]
  <2>3. up' = [up EXCEPT ![q] = v]
    BY <1>1, <2>1
  <2>4. /\ v.pc = afterPoll(p) /\ v.retries = up[q].retries /\ v.sent = up[q].sent
        /\ v.stalls = IF p = "pending" THEN up[q].stalls + 1 ELSE up[q].stalls
    BY <1>1 DEF Upload
  <2> HIDE DEF v
  <2>5. Further(up[q], v)
    <3>1. CASE p = "pending"
      <4>1. v.pc = "polling" /\ up[q].stalls < v.stalls
        BY <1>2, <2>4, <3>1 DEF afterPoll
      <4>2. phase(up[q]) = phase(v)
        BY <2>2, <4>1 DEF phase
      <4> QED BY <2>2, <2>4, <4>1, <4>2 DEF Further, Ended
    <3>2. CASE p \in {"succeeded", "failed"}
      BY <2>2, <2>4, <3>2 DEF afterPoll, Further, Ended
    <3> QED BY <3>1, <3>2
  <2> QED BY <2>3, <2>5, OneAdvances
<1> QED BY <1>3, <1>4, <1>5, <1>6 DEF TwitterStep

\* What becomes of an upload that has begun.
Onwards == \A q \in Requests :
    up[q].pc # "idle" => up'[q] = up[q] \/ Further(up[q], up'[q])

LEMMA StepAdvances == UploadTypeOK /\ [UploadNext]_uploadVars => Onwards
<1> SUFFICES ASSUME UploadTypeOK, [UploadNext]_uploadVars PROVE Onwards
  OBVIOUS
<1>1. CASE \E q \in Requests : upload_video(q) \/ upload_media(q)
  BY <1>1 DEF upload_video, upload_media, UploadTypeOK, Onwards
<1>2. CASE \E q \in Requests : UploadStep(q)
  BY <1>2, YouTubeAdvances, TwitterAdvances DEF UploadStep, Onwards
<1>3. CASE UNCHANGED uploadVars
  BY <1>3 DEF uploadVars, Onwards
<1> QED BY <1>1, <1>2, <1>3 DEF UploadNext

\* For every file, every number of retries and every host: no upload comes back
\* to where it was, so the loops of upload_video and upload_media end unless the
\* site answers without end that it made no progress.
THEOREM UploadsGoOn == UploadSpec => UploadsAdvance
<1>1. UploadInv /\ [UploadNext]_uploadVars => [Onwards]_uploadVars
  BY StepAdvances, UploadInvImplies
<1>2. UploadSpec => [][Onwards]_uploadVars
  BY <1>1, UploadInvInit, UploadInvNext, PTL DEF UploadSpec
<1> QED BY <1>2 DEF UploadsAdvance, Onwards

=============================================================================
