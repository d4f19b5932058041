-------------------------- MODULE PublishingProofs --------------------------
(***************************************************************************)
(* Proofs about Publishing, for any requests, contents, file sizes, retries *)
(* and expiries.                                                            *)
(***************************************************************************)
EXTENDS Publishing, VideoUploadProofs

PubTypeOK ==
    /\ provider \in Provider
    /\ account \in Tokens
    /\ connection \in Tokens
    /\ issued \in Nat
    /\ live \in 0 .. issued
    /\ fresh \subseteq 1 .. issued
    /\ req \in [Requests -> Request]
    /\ posted \subseteq Requests
    /\ burnt \in BOOLEAN
    /\ expiries \in 0 .. MaxExpiries

\* No one knows a refresh token that is not issued yet.
Bounded ==
    /\ account.refresh <= issued
    /\ \A q \in Requests :
          req[q].held.refresh <= issued /\ req[q].given.refresh <= issued

\* Without rotation there is one refresh token, and everyone has it.
Steady ==
    provider \notin Rotating =>
        /\ account.refresh = live
        /\ \A q \in Requests :
              /\ req[q].pc # "idle" => req[q].held.refresh = live
              /\ req[q].pc = "storing" => req[q].given.refresh = live

\* With rotation the token that works is in the row, or one request brings it
\* there and no one else can refresh.
Turn ==
    provider \in Rotating /\ ~burnt =>
        /\ account.refresh = live \/ \E q \in Requests : req[q].pc = "storing"
        /\ \A q \in Requests : req[q].pc = "storing" =>
              /\ req[q].given.refresh = live
              /\ account.refresh # live
              /\ \A r \in Requests :
                    req[r].held.refresh # live /\ (req[r].pc = "storing" => r = q)

TokenInv ==
    /\ Bounded
    /\ connection \in {account, NoRow}
    /\ Steady
    /\ Turn

\* Where a request and its upload are.
Link(q) ==
    /\ up[q].pc = "idle" => up[q].to = "nobody"
    /\ req[q].pc \in {"idle", "loaded", "storing", "ready"} =>
          up[q].pc = "idle" /\ q \notin posted
    /\ req[q].pc = "uploading" =>
          /\ up[q].pc # "idle"
          /\ q \notin posted
          /\ provider \in Uploading
          /\ up[q].to = IF provider = "GOOGLE" THEN "youtube" ELSE "twitter"
    /\ req[q].pc = "posting" => provider # "GOOGLE" /\ q \notin posted
    /\ req[q].pc = "PUBLISHED" => Made(q)
    /\ req[q].pc = "FAILED" /\ Made(q) => req[q].silent \/ "silent" \in noted[q]

PublishInv ==
    /\ UploadInv
    /\ PubTypeOK
    /\ TokenInv
    /\ \A q \in Requests : Link(q)

-----------------------------------------------------------------------------
\* Publishing uploads as VideoUpload does.
LEMMA StepUploads == [Next]_allVars => [UploadNext]_uploadVars
<1> SUFFICES ASSUME [Next]_allVars PROVE [UploadNext]_uploadVars
  OBVIOUS
<1>1. CASE UNCHANGED allVars
  BY <1>1 DEF allVars
<1>2. ASSUME NEW t \in fresh, Expire(t) PROVE [UploadNext]_uploadVars
  BY <1>2 DEF Expire
<1>3. ASSUME NEW q \in Requests, publish_content(q) PROVE [UploadNext]_uploadVars
  BY <1>3 DEF publish_content
<1>4. ASSUME NEW q \in Requests, Step(q) PROVE [UploadNext]_uploadVars
  <2>1. CASE StartUpload(q)
    BY <2>1 DEF StartUpload, UploadNext
  <2>2. CASE GoOnUploading(q)
    BY <2>2 DEF GoOnUploading, UploadNext
  <2>3. CASE ~StartUpload(q) /\ ~GoOnUploading(q)
    BY <1>4, <2>3 DEF Step, GoogleTypeError, Unsuitable, TokenIsFresh, RefreshRefused,
      RefreshGranted, RefreshUnanswered, Store, StoreFails, UploadReturns,
      UploadRaises, PostAnswered, PostUnanswered, PostRefused
  <2> QED
    BY <2>1, <2>2, <2>3
<1> QED
  BY <1>1, <1>2, <1>3, <1>4 DEF Next

\* The upload of one request leaves the others alone.
LEMMA OneUploads ==
    ASSUME UploadTypeOK, NEW q \in Requests, NEW r \in Requests, r # q,
           upload_video(q) \/ upload_media(q) \/ UploadStep(q)
    PROVE  up'[r] = up[r] /\ site'[r] = site[r] /\ noted'[r] = noted[r]
<1>1. CASE upload_video(q) \/ upload_media(q)
  BY <1>1 DEF upload_video, upload_media, UploadTypeOK
<1>2. CASE PutComplete(q) \/ PutIncomplete(q) \/ PutUnread(q) \/ PutFails(q)
  BY <1>2 DEF PutComplete, PutIncomplete, PutUnread, PutFails, Taken, OneRetryLess, goto,
    UploadTypeOK
<1>3. CASE PutForbidden(q) \/ LoopEnds(q) \/ StatusUnread(q) \/ StatusFails(q)
            \/ MediaFails(q)
  BY <1>3 DEF PutForbidden, LoopEnds, StatusUnread, StatusFails, MediaFails, goto,
    UploadTypeOK
<1>4. CASE StatusComplete(q) \/ StatusIncomplete(q) \/ PollSaysNothing(q)
  BY <1>4 DEF StatusComplete, StatusIncomplete, PollSaysNothing, goto, UploadTypeOK
<1>5. CASE append(q) \/ finalize(q) \/ poll(q)
  BY <1>5 DEF append, finalize, poll, goto, UploadTypeOK
<1> QED
  BY <1>1, <1>2, <1>3, <1>4, <1>5 DEF UploadStep, YouTubeStep, TwitterStep

\* An upload does not change its site and does not become idle again.
LEMMA UploadGoesOn ==
    ASSUME UploadTypeOK, NEW q \in Requests, UploadStep(q)
    PROVE  up'[q].to = up[q].to /\ up'[q].pc # "idle"
<1>1. up \in [Requests -> Upload]
  BY DEF UploadTypeOK
<1>2. CASE PutComplete(q) \/ PutIncomplete(q) \/ PutUnread(q) \/ PutFails(q)
  <2>1. CASE PutComplete(q)
    BY <1>1, <2>1 DEF PutComplete, goto, Upload
  <2>2. CASE PutIncomplete(q)
    BY <1>1, <2>2 DEF PutIncomplete, InLoop, Upload
  <2>3. CASE PutFails(q)
    BY <1>1, <2>3 DEF PutFails, OneRetryLess, Upload
  <2>4. CASE PutUnread(q)
    BY <1>1, <2>4 DEF PutUnread, InLoop, Upload
  <2> QED
    BY <1>2, <2>1, <2>2, <2>3, <2>4
<1>3. CASE PutForbidden(q) \/ LoopEnds(q) \/ StatusUnread(q) \/ StatusFails(q)
            \/ MediaFails(q)
  BY <1>1, <1>3 DEF PutForbidden, LoopEnds, StatusUnread, StatusFails, MediaFails,
    goto, Upload
<1>4. CASE StatusComplete(q) \/ StatusIncomplete(q) \/ PollSaysNothing(q)
  BY <1>1, <1>4 DEF StatusComplete, StatusIncomplete, PollSaysNothing, goto, Upload
<1>5. CASE append(q) \/ finalize(q)
  BY <1>1, <1>5 DEF append, finalize, goto, Upload
<1>6. CASE poll(q)
  BY <1>1, <1>6 DEF poll, afterPoll, Upload
<1> QED
  BY <1>2, <1>3, <1>4, <1>5, <1>6 DEF UploadStep, YouTubeStep, TwitterStep

-----------------------------------------------------------------------------
\* Types.

LEMMA Moved ==
    ASSUME PubTypeOK, NEW q \in Requests,
           NEW pc \in {"idle", "loaded", "storing", "ready", "uploading", "posting",
                       "PUBLISHED", "FAILED"},
           moveTo(q, pc)
    PROVE  /\ req' \in [Requests -> Request]
           /\ req'[q].pc = pc /\ req'[q].held = req[q].held
           /\ req'[q].given = req[q].given /\ req'[q].silent = req[q].silent
           /\ \A r \in Requests : r # q => req'[r] = req[r]
  BY DEF PubTypeOK, moveTo, Request

LEMMA StepType == ASSUME PubTypeOK, NEW q \in Requests, Step(q) PROVE PubTypeOK'
<1>1. CASE GoogleTypeError(q) \/ Unsuitable(q) \/ TokenIsFresh(q) \/ RefreshRefused(q)
  BY <1>1, Moved DEF GoogleTypeError, Unsuitable, TokenIsFresh, RefreshRefused, tokenVars,
    PubTypeOK
<1>2. CASE RefreshGranted(q)
  <2> DEFINE pair == [access |-> issued + 1,
                      refresh |-> IF provider \in Rotating THEN issued + 1
                                  ELSE req[q].held.refresh]
  <2>1. req[q] \in Request /\ req[q].held.refresh \in Nat /\ issued \in Nat
    BY DEF PubTypeOK, Request, Tokens
  <2>2. pair \in Tokens
    BY <2>1 DEF Tokens
  <2>3. req' = [req EXCEPT ![q].pc = "storing", ![q].given = pair]
    BY <1>2 DEF RefreshGranted
  <2> HIDE DEF pair
  <2>4. req' \in [Requests -> Request]
    BY <2>2, <2>3 DEF PubTypeOK, Request
  <2>5. issued' \in Nat /\ live' \in 0 .. issued' /\ fresh' \subseteq 1 .. issued'
    BY <1>2, <2>1 DEF RefreshGranted, Issue, PubTypeOK
  <2> QED
    BY <1>2, <2>4, <2>5 DEF RefreshGranted, PubTypeOK
<1>3. CASE RefreshUnanswered(q)
  <2>1. issued' \in Nat /\ live' \in 0 .. issued' /\ fresh' \subseteq 1 .. issued'
    BY <1>3 DEF RefreshUnanswered, Issue, PubTypeOK
  <2> QED
    BY <1>3, <2>1, Moved DEF RefreshUnanswered, PubTypeOK
<1>4. CASE Store(q)
  <2>1. req[q].given \in Tokens
    BY DEF PubTypeOK, Request
  <2>2. req' \in [Requests -> Request]
    BY <1>4, <2>1 DEF Store, PubTypeOK, Request
  <2> QED
    BY <1>4, <2>1, <2>2 DEF Store, PubTypeOK
<1>5. CASE StoreFails(q)
  BY <1>5, Moved DEF StoreFails, PubTypeOK
<1>6. CASE StartUpload(q) \/ UploadRaises(q) \/ PostRefused(q)
  BY <1>6, Moved DEF StartUpload, UploadRaises, PostRefused, tokenVars, PubTypeOK
<1>7. CASE GoOnUploading(q)
  BY <1>7 DEF GoOnUploading, publishVars, PubTypeOK
<1>8. CASE UploadReturns(q)
  BY <1>8, Moved DEF UploadReturns, tokenVars, PubTypeOK
<1>9. CASE PostAnswered(q)
  BY <1>9, Moved DEF PostAnswered, tokenVars, PubTypeOK
<1>10. CASE PostUnanswered(q)
  <2>1. req' \in [Requests -> Request]
    BY <1>10 DEF PostUnanswered, PubTypeOK, Request
  <2> QED
    BY <1>10, <2>1 DEF PostUnanswered, tokenVars, PubTypeOK
<1> QED
  BY <1>1, <1>2, <1>3, <1>4, <1>5, <1>6, <1>7, <1>8, <1>9, <1>10 DEF Step

LEMMA NextType == ASSUME PubTypeOK, [Next]_allVars PROVE PubTypeOK'
<1>1. CASE UNCHANGED allVars
  BY <1>1 DEF allVars, publishVars, PubTypeOK
<1>2. ASSUME NEW t \in fresh, Expire(t) PROVE PubTypeOK'
  BY <1>2, PublishAssumption DEF Expire, PubTypeOK
<1>3. ASSUME NEW q \in Requests, publish_content(q) PROVE PubTypeOK'
  <2>1. req' \in [Requests -> Request]
    BY <1>3 DEF publish_content, PubTypeOK, Request
  <2> QED
    BY <1>3, <2>1 DEF publish_content, tokenVars, PubTypeOK
<1> QED
  BY <1>1, <1>2, <1>3, StepType DEF Next

-----------------------------------------------------------------------------
\* Tokens.

\* A step in which nobody receives or stores any.
Quiet ==
    /\ UNCHANGED <<provider, account, connection, issued, live, burnt>>
    /\ \A r \in Requests :
          /\ req'[r].held = req[r].held /\ req'[r].given = req[r].given
          /\ req'[r].pc = "storing" <=> req[r].pc = "storing"
          /\ req'[r].pc = "idle" <=> req[r].pc = "idle"

LEMMA QuietKeeps == ASSUME TokenInv, Quiet PROVE TokenInv'
<1>1. Bounded' /\ (connection \in {account, NoRow})'
  BY DEF TokenInv, Quiet, Bounded
<1>2. Steady'
  BY DEF TokenInv, Quiet, Steady
<1>3. Turn'
  BY DEF TokenInv, Quiet, Turn
<1> QED
  BY <1>1, <1>2, <1>3 DEF TokenInv

LEMMA QuietSteps ==
    ASSUME PubTypeOK, NEW q \in Requests,
           \/ GoogleTypeError(q) \/ Unsuitable(q) \/ TokenIsFresh(q) \/ RefreshRefused(q)
           \/ StartUpload(q) \/ GoOnUploading(q) \/ UploadReturns(q) \/ UploadRaises(q)
           \/ PostAnswered(q) \/ PostUnanswered(q) \/ PostRefused(q)
    PROVE  Quiet
<1>1. CASE GoogleTypeError(q) \/ Unsuitable(q) \/ TokenIsFresh(q) \/ RefreshRefused(q)
  BY <1>1, Moved DEF GoogleTypeError, Unsuitable, TokenIsFresh, RefreshRefused, tokenVars,
    Quiet
<1>2. CASE StartUpload(q) \/ UploadRaises(q) \/ UploadReturns(q)
  BY <1>2, Moved DEF StartUpload, UploadRaises, UploadReturns, tokenVars, Quiet
<1>3. CASE PostAnswered(q) \/ PostRefused(q)
  BY <1>3, Moved DEF PostAnswered, PostRefused, Posting, tokenVars, Quiet
<1>4. CASE GoOnUploading(q)
  BY <1>4 DEF GoOnUploading, publishVars, Quiet
<1>5. CASE PostUnanswered(q)
  <2>1. req[q].pc \in {"posting", "ready"}
    BY <1>5 DEF PostUnanswered, Posting
  <2>2. \A r \in Requests :
          /\ req'[r].held = req[r].held /\ req'[r].given = req[r].given
          /\ req'[r].pc = IF r = q THEN "FAILED" ELSE req[r].pc
    BY <1>5 DEF PostUnanswered, PubTypeOK, Request
  <2>3. UNCHANGED <<provider, account, connection, issued, live, burnt>>
    BY <1>5 DEF PostUnanswered, tokenVars
  <2> QED
    BY <2>1, <2>2, <2>3 DEF Quiet
<1> QED
  BY <1>1, <1>2, <1>3, <1>4, <1>5

LEMMA LoadTokens ==
    ASSUME PubTypeOK, TokenInv, NEW q \in Requests, publish_content(q) PROVE TokenInv'
<1>1. \A r \in Requests :
        /\ req'[r].held = IF r = q THEN account ELSE req[r].held
        /\ req'[r].given = req[r].given
        /\ req'[r].pc = IF r = q THEN "loaded" ELSE req[r].pc
  BY DEF publish_content, PubTypeOK, Request
<1>2. UNCHANGED <<provider, account, connection, issued, live, burnt>>
      /\ req[q].pc = "idle"
  BY DEF publish_content, tokenVars
<1>3. Bounded' /\ (connection \in {account, NoRow})'
  BY <1>1, <1>2 DEF TokenInv, Bounded
<1>4. Steady'
  BY <1>1, <1>2 DEF TokenInv, Steady
<1>5. Turn'
  BY <1>1, <1>2 DEF TokenInv, Turn
<1> QED
  BY <1>3, <1>4, <1>5 DEF TokenInv

\* The pair just issued is newer than all anyone has, and who could ask for it
\* held the one that works: nobody was storing.
LEMMA GrantTokens ==
    ASSUME PubTypeOK, TokenInv, NEW q \in Requests, RefreshGranted(q) PROVE TokenInv'
<1> DEFINE new == IF provider \in Rotating THEN issued + 1 ELSE req[q].held.refresh
<1>1. \A r \in Requests :
        /\ req'[r].held = req[r].held
        /\ req'[r].given.refresh = IF r = q THEN new ELSE req[r].given.refresh
        /\ req'[r].pc = IF r = q THEN "storing" ELSE req[r].pc
  BY DEF RefreshGranted, PubTypeOK, Request, Tokens
<1>2. UNCHANGED <<provider, account, connection, burnt>> /\ req[q].pc = "loaded"
      /\ issued' = issued + 1
      /\ live' = IF provider \in Rotating THEN issued + 1 ELSE live
  BY DEF RefreshGranted, Issue
<1>3. issued \in Nat /\ account.refresh \in Nat
      /\ \A r \in Requests : req[r].held.refresh \in Nat /\ req[r].given.refresh \in Nat
  BY DEF PubTypeOK, Request, Tokens
<1>4. Bounded' /\ (connection \in {account, NoRow})'
  BY <1>1, <1>2, <1>3 DEF TokenInv, Bounded
<1>5. Steady'
  BY <1>1, <1>2 DEF TokenInv, Steady
<1>6. ASSUME provider \in Rotating, ~burnt
      PROVE  \A r \in Requests : req[r].pc # "storing"
  <2>1. req[q].held.refresh = live
    BY <1>6 DEF RefreshGranted, Accepted
  <2> QED
    BY <1>6, <2>1 DEF TokenInv, Turn
<1>7. account.refresh # issued + 1
      /\ \A r \in Requests : req[r].held.refresh # issued + 1
  BY <1>3 DEF TokenInv, Bounded
<1>8. Turn'
  BY <1>1, <1>2, <1>6, <1>7 DEF Turn
<1> QED
  BY <1>4, <1>5, <1>8 DEF TokenInv

LEMMA DropTokens ==
    ASSUME PubTypeOK, TokenInv, NEW q \in Requests,
           RefreshUnanswered(q) \/ StoreFails(q)
    PROVE  TokenInv'
<1>1. \A r \in Requests :
        /\ req'[r].held = req[r].held /\ req'[r].given = req[r].given
        /\ req'[r].pc = IF r = q THEN "FAILED" ELSE req[r].pc
  BY Moved DEF RefreshUnanswered, StoreFails
<1>2. UNCHANGED <<provider, account, connection>> /\ burnt'
      /\ req[q].pc \in {"loaded", "storing"}
      /\ issued' \in {issued, issued + 1}
      /\ (provider \notin Rotating => live' = live)
  BY DEF RefreshUnanswered, StoreFails, Issue
<1>3. issued \in Nat /\ account.refresh \in Nat
      /\ \A r \in Requests : req[r].held.refresh \in Nat /\ req[r].given.refresh \in Nat
  BY DEF PubTypeOK, Request, Tokens
<1>4. Bounded' /\ (connection \in {account, NoRow})'
  BY <1>1, <1>2, <1>3 DEF TokenInv, Bounded
<1>5. Steady'
  BY <1>1, <1>2 DEF TokenInv, Steady
<1>6. Turn'
  BY <1>2 DEF Turn
<1> QED
  BY <1>4, <1>5, <1>6 DEF TokenInv

LEMMA StoreTokens ==
    ASSUME PubTypeOK, TokenInv, NEW q \in Requests, Store(q) PROVE TokenInv'
<1> DEFINE pair == req[q].given
<1>1. \A r \in Requests :
        /\ req'[r].held = IF r = q THEN pair ELSE req[r].held
        /\ req'[r].given = req[r].given
        /\ req'[r].pc = IF r = q THEN "ready" ELSE req[r].pc
  BY DEF Store, PubTypeOK, Request
<1>2. account' = pair /\ connection' = pair /\ UNCHANGED <<provider, issued, live, burnt>>
      /\ req[q].pc = "storing"
  BY DEF Store
<1> HIDE DEF pair
<1>3. Bounded' /\ (connection \in {account, NoRow})'
  BY <1>1, <1>2 DEF TokenInv, Bounded, pair
<1>4. Steady'
  BY <1>1, <1>2 DEF TokenInv, Steady, pair
<1>5. ASSUME provider \in Rotating, ~burnt
      PROVE  pair.refresh = live /\ \A r \in Requests : req'[r].pc # "storing"
  BY <1>1, <1>2, <1>5 DEF TokenInv, Turn, pair
<1>6. Turn'
  BY <1>1, <1>2, <1>5 DEF Turn
<1> QED
  BY <1>3, <1>4, <1>6 DEF TokenInv

LEMMA NextTokens == ASSUME PubTypeOK, TokenInv, [Next]_allVars PROVE TokenInv'
<1>1. CASE UNCHANGED allVars
  BY <1>1, QuietKeeps DEF allVars, publishVars, Quiet
<1>2. ASSUME NEW t \in fresh, Expire(t) PROVE TokenInv'
  <2>1. Quiet
    BY <1>2 DEF Expire, Quiet
  <2> QED
    BY <2>1, QuietKeeps
<1>3. ASSUME NEW q \in Requests, Step(q) PROVE TokenInv'
  BY <1>3, QuietSteps, QuietKeeps, GrantTokens, DropTokens, StoreTokens DEF Step
<1> QED
  BY <1>1, <1>2, <1>3, LoadTokens DEF Next

-----------------------------------------------------------------------------
\* Answers.

\* A request stays linked while others move.
LEMMA OtherLink ==
    ASSUME NEW r \in Requests, Link(r),
           up'[r] = up[r], site'[r] = site[r], noted'[r] = noted[r],
           req'[r] = req[r], provider' = provider, r \in posted' <=> r \in posted
    PROVE  Link(r)'
  BY DEF Link, Made, Complete

\* One that moves on with its upload as it was.
LEMMA MovesLink ==
    ASSUME PublishInv, NEW q \in Requests, UNCHANGED <<uploadVars, provider, posted>>,
           NEW pc \in {"loaded", "storing", "ready", "FAILED"},
           req[q].pc \in {"idle", "loaded", "storing", "ready"},
           req'[q].pc = pc
    PROVE  Link(q)'
<1>1. Link(q)
  BY DEF PublishInv
<1> QED
  BY <1>1 DEF Link, Made, Complete, uploadVars

LEMMA StepLink ==
    ASSUME PublishInv, NEW q \in Requests, Step(q) PROVE Link(q)'
<1>1. Link(q) /\ PubTypeOK /\ UploadTypeOK /\ Fine(q)
  BY DEF PublishInv, UploadInv
<1>2. CASE GoogleTypeError(q) \/ Unsuitable(q) \/ TokenIsFresh(q) \/ RefreshRefused(q)
  <2>1. req[q].pc \in {"loaded", "ready"} /\ UNCHANGED <<uploadVars, provider, posted>>
        /\ req'[q].pc \in {"ready", "FAILED"}
    BY <1>1, <1>2, Moved DEF GoogleTypeError, Unsuitable, TokenIsFresh, RefreshRefused
  <2> QED
    BY <2>1, MovesLink
<1>3. CASE RefreshGranted(q) \/ Store(q)
  <2>1. req[q].pc \in {"loaded", "storing"} /\ UNCHANGED <<uploadVars, provider, posted>>
    BY <1>3 DEF RefreshGranted, Store
  <2>2. req'[q].pc \in {"storing", "ready"}
    BY <1>1, <1>3 DEF RefreshGranted, Store, PubTypeOK, Request
  <2> QED
    BY <2>1, <2>2, MovesLink
<1>4. CASE RefreshUnanswered(q) \/ StoreFails(q)
  <2>1. req[q].pc \in {"loaded", "storing"} /\ UNCHANGED <<uploadVars, provider, posted>>
        /\ req'[q].pc = "FAILED"
    BY <1>1, <1>4, Moved DEF RefreshUnanswered, StoreFails
  <2> QED
    BY <2>1, MovesLink
<1>5. CASE StartUpload(q)
  <2>1. up'[q].pc # "idle" /\ up'[q].to = IF provider = "GOOGLE" THEN "youtube" ELSE "twitter"
    BY <1>1, <1>5 DEF StartUpload, upload_video, upload_media, begun, UploadTypeOK
  <2>2. q \notin posted /\ provider \in Uploading /\ provider' = provider /\ posted' = posted
        /\ req'[q].pc = "uploading"
    BY <1>1, <1>5, Moved DEF StartUpload, Link, uploads
  <2> QED
    BY <2>1, <2>2 DEF Link
<1>6. CASE GoOnUploading(q)
  <2>1. up'[q].pc # "idle" /\ up'[q].to = up[q].to
    BY <1>1, <1>6, UploadGoesOn DEF GoOnUploading
  <2>2. UNCHANGED <<req, provider, posted>> /\ req[q].pc = "uploading"
    BY <1>6 DEF GoOnUploading, publishVars
  <2> QED
    BY <1>1, <2>1, <2>2 DEF Link
<1>7. CASE UploadReturns(q)
  <2>1. UNCHANGED <<up, site, noted, provider, posted>> /\ req[q].pc = "uploading"
        /\ up[q].pc = "done"
        /\ req'[q].pc = IF provider = "GOOGLE" THEN "PUBLISHED" ELSE "posting"
    BY <1>1, <1>7, Moved DEF UploadReturns, uploadVars
  <2>2. provider = "GOOGLE" => Complete(q)
    BY <1>1, <2>1 DEF Fine, Sound, Whole, Link, Complete
  <2> QED
    BY <1>1, <2>1, <2>2 DEF Link, Made, Complete
<1>8. CASE UploadRaises(q)
  <2>1. UNCHANGED <<up, site, noted, provider, posted>> /\ req[q].pc = "uploading"
        /\ up[q].pc = "raised" /\ req'[q].pc = "FAILED"
    BY <1>1, <1>8, Moved DEF UploadRaises, uploadVars
  <2>2. Complete(q) => "silent" \in noted[q]
    BY <1>1, <2>1 DEF Fine, Silent, Complete
  <2> QED
    BY <1>1, <2>1, <2>2 DEF Link, Made, Complete
<1>9. CASE PostAnswered(q)
  <2>1. UNCHANGED <<up, site, noted, provider>> /\ q \in posted'
        /\ req'[q].pc = "PUBLISHED"
    BY <1>1, <1>9, Moved DEF PostAnswered, uploadVars
  <2>2. up[q].pc = "idle" => up[q].to = "nobody"
    BY <1>1 DEF Link
  <2> QED
    BY <2>1, <2>2 DEF Link, Made
<1>10. CASE PostUnanswered(q)
  <2>1. UNCHANGED <<up, site, noted, provider>>
        /\ req'[q].pc = "FAILED" /\ req'[q].silent
    BY <1>1, <1>10 DEF PostUnanswered, uploadVars, PubTypeOK, Request
  <2>2. up[q].pc = "idle" => up[q].to = "nobody"
    BY <1>1 DEF Link
  <2> QED
    BY <2>1, <2>2 DEF Link
<1>11. CASE PostRefused(q)
  <2>1. UNCHANGED <<up, site, noted, provider, posted>> /\ req'[q].pc = "FAILED"
        /\ Posting(q)
    BY <1>1, <1>11, Moved DEF PostRefused, uploadVars
  <2>2. ~Made(q)
    BY <1>1, <2>1 DEF Posting, Link, Made, Complete
  <2> QED
    BY <1>1, <2>1, <2>2 DEF Link, Made, Complete
<1> QED
  BY <1>2, <1>3, <1>4, <1>5, <1>6, <1>7, <1>8, <1>9, <1>10, <1>11 DEF Step

LEMMA StepDisturbs ==
    ASSUME PublishInv, NEW q \in Requests, publish_content(q) \/ Step(q),
           NEW r \in Requests, r # q
    PROVE  /\ up'[r] = up[r] /\ site'[r] = site[r] /\ noted'[r] = noted[r]
           /\ req'[r] = req[r] /\ provider' = provider
           /\ r \in posted' <=> r \in posted
<1>1. PubTypeOK /\ UploadTypeOK
  BY DEF PublishInv, UploadInv
<1>2. up'[r] = up[r] /\ site'[r] = site[r] /\ noted'[r] = noted[r]
  <2>1. CASE StartUpload(q)
    BY <1>1, <2>1, OneUploads DEF StartUpload
  <2>2. CASE GoOnUploading(q)
    BY <1>1, <2>2, OneUploads DEF GoOnUploading
  <2>3. CASE ~StartUpload(q) /\ ~GoOnUploading(q)
    BY <2>3 DEF Step, publish_content, GoogleTypeError, Unsuitable, TokenIsFresh,
      RefreshRefused, RefreshGranted, RefreshUnanswered, Store, StoreFails,
      UploadReturns, UploadRaises, PostAnswered, PostUnanswered, PostRefused, uploadVars
  <2> QED
    BY <2>1, <2>2, <2>3
<1>3. provider' = provider /\ (r \in posted' <=> r \in posted)
  BY DEF Step, publish_content, GoogleTypeError, Unsuitable, TokenIsFresh,
    RefreshRefused, RefreshGranted, RefreshUnanswered, Store, StoreFails, StartUpload,
    GoOnUploading, UploadReturns, UploadRaises, PostAnswered, PostUnanswered,
    PostRefused, publishVars
<1>4. req'[r] = req[r]
  BY <1>1 DEF Step, publish_content, GoogleTypeError, Unsuitable, TokenIsFresh,
    RefreshRefused, RefreshGranted, RefreshUnanswered, Store, StoreFails, StartUpload,
    GoOnUploading, UploadReturns, UploadRaises, PostAnswered, PostUnanswered,
    PostRefused, publishVars, moveTo, PubTypeOK
<1> QED
  BY <1>2, <1>3, <1>4

LEMMA NextLinks ==
    ASSUME PublishInv, [Next]_allVars, NEW r \in Requests PROVE Link(r)'
<1>1. Link(r) /\ PubTypeOK
  BY DEF PublishInv
<1>2. CASE UNCHANGED allVars
  BY <1>1, <1>2, OtherLink DEF allVars, uploadVars, publishVars
<1>3. ASSUME NEW t \in fresh, Expire(t) PROVE Link(r)'
  BY <1>1, <1>3, OtherLink DEF Expire, uploadVars
<1>4. ASSUME NEW q \in Requests, publish_content(q) \/ Step(q) PROVE Link(r)'
  <2>1. CASE r # q
    BY <1>1, <1>4, <2>1, StepDisturbs, OtherLink
  <2>2. CASE r = q /\ Step(q)
    BY <2>2, StepLink
  <2>3. CASE r = q /\ publish_content(q)
    <3>1. req[q].pc = "idle" /\ UNCHANGED <<uploadVars, provider, posted>>
          /\ req'[q].pc = "loaded"
      BY <1>1, <2>3 DEF publish_content, PubTypeOK, Request
    <3> QED
      BY <2>3, <3>1, MovesLink
  <2> QED
    BY <1>4, <2>1, <2>2, <2>3
<1> QED
  BY <1>2, <1>3, <1>4 DEF Next

-----------------------------------------------------------------------------
LEMMA PublishInvInit == Init => PublishInv
<1> SUFFICES ASSUME Init PROVE PublishInv
  OBVIOUS
<1>1. UploadInv
  BY UploadInvInit DEF Init
<1>2. NoRow \in Tokens /\ NoRow.refresh = 0
  BY DEF NoRow, Tokens
<1>3. Idle \in Request /\ Idle.pc = "idle" /\ Idle.held = NoRow /\ Idle.given = NoRow
  BY <1>2 DEF Idle, Request
<1>4. PICK r \in {0, 1} : account = [access |-> 1, refresh |-> r]
  BY DEF Init
<1>5. account \in Tokens /\ account.refresh \in 0 .. 1
  BY <1>4 DEF Tokens
<1>6. PubTypeOK
  <2>1. connection \in Tokens
    BY <1>2, <1>5 DEF Init
  <2>2. issued \in Nat /\ live \in 0 .. issued /\ fresh \subseteq 1 .. issued
    BY <1>5 DEF Init
  <2>3. req \in [Requests -> Request]
    BY <1>3 DEF Init
  <2>4. expiries \in 0 .. MaxExpiries
    BY PublishAssumption DEF Init
  <2> QED
    BY <1>5, <2>1, <2>2, <2>3, <2>4 DEF Init, PubTypeOK
<1>7. TokenInv
  BY <1>2, <1>3, <1>5 DEF Init, TokenInv, Bounded, Steady, Turn
<1>8. ASSUME NEW q \in Requests PROVE Link(q)
  <2>1. up[q].pc = "idle" /\ up[q].to = "nobody"
    BY DEF Init, UploadInit, NotBegun, begun
  <2> QED
    BY <1>3, <2>1 DEF Init, Link
<1> QED
  BY <1>1, <1>6, <1>7, <1>8 DEF PublishInv

LEMMA PublishInvNext == PublishInv /\ [Next]_allVars => PublishInv'
<1> SUFFICES ASSUME PublishInv, [Next]_allVars PROVE PublishInv'
  OBVIOUS
<1>1. UploadInv'
  BY StepUploads, UploadInvNext DEF PublishInv
<1>2. PubTypeOK' /\ TokenInv'
  BY NextType, NextTokens DEF PublishInv
<1>3. \A r \in Requests : Link(r)'
  BY NextLinks
<1> QED
  BY <1>1, <1>2, <1>3 DEF PublishInv

LEMMA PublishInvImplies ==
    PublishInv => TypeOK /\ TokensReachTheRow /\ AnswersAreTrue /\ UploadedIsWhole
<1> SUFFICES ASSUME PublishInv
             PROVE TypeOK /\ TokensReachTheRow /\ AnswersAreTrue /\ UploadedIsWhole
  OBVIOUS
<1>1. TypeOK /\ UploadedIsWhole
  BY UploadInvImplies DEF PublishInv, PubTypeOK, TypeOK
<1>2. TokensReachTheRow
  BY DEF PublishInv, TokenInv, Steady, Turn, TokensReachTheRow
<1>3. AnswersAreTrue
  BY DEF PublishInv, Link, AnswersAreTrue
<1> QED
  BY <1>1, <1>2, <1>3

\* Requests, tokens and uploads keep their types.
THEOREM TypeCorrect == Spec => []TypeOK
  BY PublishInvInit, PublishInvNext, PublishInvImplies, PTL DEF Spec

\* However many requests refresh the account at once, the refresh token the
\* provider accepts reaches the row unless a pair was issued and then dropped.
THEOREM TokensAreKept == Spec => []TokensReachTheRow
  BY PublishInvInit, PublishInvNext, PublishInvImplies, PTL DEF Spec

\* PUBLISHED and FAILED tell what the provider has, unless it fell silent.
THEOREM AnswersHold == Spec => []AnswersAreTrue
  BY PublishInvInit, PublishInvNext, PublishInvImplies, PTL DEF Spec

\* Publishing uploads as VideoUpload specifies, and so every video whose upload
\* returned is whole.
THEOREM PublishingUploads == Spec => UploadSpec
<1>1. Init => UploadInit
  BY DEF Init
<1> QED
  BY <1>1, StepUploads, PTL DEF Spec, UploadSpec

THEOREM PublishedIsWhole == Spec => []UploadedIsWhole
  BY PublishingUploads, UploadsAreWhole, PTL

\* And while it publishes, an upload comes nearer to its end with each step.
THEOREM PublishingGoesOn == Spec => UploadsAdvance
  BY PublishingUploads, UploadsGoOn

=============================================================================
