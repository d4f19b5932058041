------------------------------ MODULE Publishing ------------------------------
(***************************************************************************)
(* Publishing contents to one social account: PublishingService, the       *)
(* providers of services/social, and the refresh of the account's tokens,  *)
(* which a provider stores in a session of its own.                         *)
(*                                                                         *)
(* The account is a row of social_accounts and its connection the row that *)
(* get_by_workspace_and_provider finds under the provider's enum value.    *)
(* Tokens are numbered in the order the provider issued them.  A request    *)
(* works on the account it loaded first; between its awaits other requests *)
(* run.  The publish_history row of a request lives and ends with the       *)
(* request's session, which nothing commits: its status is the answer.     *)
(*                                                                         *)
(* Which rows there are is given: connect_account stores accounts of the   *)
(* mock provider only, and the sync job that would store the others never   *)
(* commits, so Init takes the rows the providers' tests set up.            *)
(***************************************************************************)
EXTENDS VideoUpload

CONSTANTS
    Video,       \* the requests whose content has a video
    MaxExpiries  \* bound: how often the account's access token expires

ASSUME PublishAssumption ==
    /\ Video \subseteq Requests
    /\ MaxExpiries \in Nat

VARIABLES
    provider,    \* the account's provider
    account,     \* the row's tokens
    connection,  \* the tokens of the connection's row, if there is one
    issued,      \* how many token pairs the provider has issued
    live,        \* the refresh token the provider accepts
    fresh,       \* the access tokens that have more than five minutes left
    req,         \* the requests
    posted,      \* the requests whose post the provider has made
    burnt,       \* history: a new pair was issued and reached no row
    expiries

publishVars ==
    <<provider, account, connection, issued, live, fresh, req, posted, burnt, expiries>>
allVars == <<uploadVars, publishVars>>

Provider == {"MOCK", "META", "INSTAGRAM", "LINKEDIN", "GOOGLE", "TWITTER"}

\* The providers that look at expires_at, and those that upload videos.
Refreshing == {"LINKEDIN", "GOOGLE", "TWITTER"}
Uploading == {"GOOGLE", "TWITTER"}

\* Twitter replaces the refresh token when it is used; Google's answer has none
\* and LinkedIn's repeats it.
Rotating == {"TWITTER"}

\* refresh = 0: the account has no refresh token.
Tokens == [access : Nat, refresh : Nat]
NoRow == [access |-> 0, refresh |-> 0]

Request ==
    [pc : {"idle", "loaded", "storing", "ready", "uploading", "posting",
           "PUBLISHED", "FAILED"},
     held : Tokens,     \* the tokens of the account object
     given : Tokens,    \* the pair just received
     silent : BOOLEAN]  \* history: the post was made and no answer told so
Idle == [pc |-> "idle", held |-> NoRow, given |-> NoRow, silent |-> FALSE]

Init ==
    /\ UploadInit
    /\ provider \in Provider
    /\ account \in {[access |-> 1, refresh |-> r] : r \in {0, 1}}
    /\ connection \in {account, NoRow}
    /\ issued = 1
    /\ live = account.refresh
    /\ fresh = {1}
    /\ req = [q \in Requests |-> Idle]
    /\ posted = {}
    /\ burnt = FALSE
    /\ expiries = 0

moveTo(q, pc) == req' = [req EXCEPT ![q].pc = pc]

tokenVars == <<account, connection, issued, live, fresh, burnt, expiries>>

-----------------------------------------------------------------------------
\* Content and account are loaded, then the history row is flushed.
publish_content(q) ==
    /\ req[q].pc = "idle"
    /\ req' = [req EXCEPT ![q].pc = "loaded", ![q].held = account]
    /\ UNCHANGED <<uploadVars, provider, tokenVars, posted>>

\* The service leaves out the session that GoogleProvider takes first, and its
\* calls end here; those that go on are calls of the provider itself.
GoogleTypeError(q) ==
    /\ req[q].pc = "loaded"
    /\ provider = "GOOGLE"
    /\ moveTo(q, "FAILED")
    /\ UNCHANGED <<uploadVars, provider, tokenVars, posted>>

\* The content is not what the provider takes: no body, the wrong media.
Unsuitable(q) ==
    /\ req[q].pc \in {"loaded", "ready"}
    /\ moveTo(q, "FAILED")
    /\ UNCHANGED <<uploadVars, provider, tokenVars, posted>>

NeedsRefresh(q) == provider \in Refreshing /\ req[q].held.access \notin fresh

TokenIsFresh(q) ==
    /\ req[q].pc = "loaded"
    /\ ~NeedsRefresh(q)
    /\ moveTo(q, "ready")
    /\ UNCHANGED <<uploadVars, provider, tokenVars, posted>>

-----------------------------------------------------------------------------
(***************************************************************************)
(* The refresh.  A provider that rotates refuses a token it has replaced.  *)
(***************************************************************************)
Accepted(r) == r # 0 /\ (provider \in Rotating => r = live)

RefreshRefused(q) ==
    /\ req[q].pc = "loaded"
    /\ NeedsRefresh(q)
    /\ moveTo(q, "FAILED")
    /\ UNCHANGED <<uploadVars, provider, tokenVars, posted>>

\* The provider issues the pair number issued + 1.
Issue ==
    /\ issued' = issued + 1
    /\ fresh' = fresh \cup {issued + 1}
    /\ live' = IF provider \in Rotating THEN issued + 1 ELSE live

RefreshGranted(q) ==
    /\ req[q].pc = "loaded"
    /\ NeedsRefresh(q)
    /\ Accepted(req[q].held.refresh)
    /\ Issue
    /\ req' = [req EXCEPT ![q].pc = "storing",
                          ![q].given = [access |-> issued + 1,
                                        refresh |-> IF provider \in Rotating
                                                    THEN issued + 1
                                                    ELSE req[q].held.refresh]]
    /\ UNCHANGED <<uploadVars, provider, account, connection, posted, burnt, expiries>>

RefreshUnanswered(q) ==
    /\ req[q].pc = "loaded"
    /\ NeedsRefresh(q)
    /\ Accepted(req[q].held.refresh)
    /\ Issue
    /\ burnt' = TRUE
    /\ moveTo(q, "FAILED")
    /\ UNCHANGED <<uploadVars, provider, account, connection, posted, expiries>>

\* The account keeps the refresh token it had.
StoreBug(q) ==
    /\ req[q].pc = "storing"
    /\ connection # NoRow
    /\ account' = [req[q].given EXCEPT !.refresh = account.refresh]
    /\ connection' = req[q].given
    /\ req' = [req EXCEPT ![q].pc = "ready", ![q].held = req[q].given]
    /\ UNCHANGED <<uploadVars, provider, issued, live, fresh, posted, burnt, expiries>>

\* Both rows in one transaction, and the account object after its commit.
Store(q) ==
    /\ req[q].pc = "storing"
    /\ connection # NoRow
    /\ account' = req[q].given
    /\ connection' = req[q].given
    /\ req' = [req EXCEPT ![q].pc = "ready", ![q].held = req[q].given]
    /\ UNCHANGED <<uploadVars, provider, issued, live, fresh, posted, burnt, expiries>>

\* No connection under the enum's value, or the transaction fails: the pair is
\* dropped.  The OAuth callback stores its rows under the lower-case name.
StoreFails(q) ==
    /\ req[q].pc = "storing"
    /\ burnt' = TRUE
    /\ moveTo(q, "FAILED")
    /\ UNCHANGED <<uploadVars, provider, account, connection, issued, live, fresh,
                   posted, expiries>>

-----------------------------------------------------------------------------
uploads(q) == q \in Video /\ provider \in Uploading

StartUpload(q) ==
    /\ req[q].pc = "ready"
    /\ uploads(q)
    /\ IF provider = "GOOGLE" THEN upload_video(q) ELSE upload_media(q)
    /\ moveTo(q, "uploading")
    /\ UNCHANGED <<provider, tokenVars, posted>>

GoOnUploading(q) ==
    /\ req[q].pc = "uploading"
    /\ UploadStep(q)
    /\ UNCHANGED publishVars

\* YouTube's upload is the post; Twitter's is attached to one.
UploadReturns(q) ==
    /\ req[q].pc = "uploading"
    /\ up[q].pc = "done"
    /\ moveTo(q, IF provider = "GOOGLE" THEN "PUBLISHED" ELSE "posting")
    /\ UNCHANGED <<uploadVars, provider, tokenVars, posted>>

UploadRaises(q) ==
    /\ req[q].pc = "uploading"
    /\ up[q].pc = "raised"
    /\ moveTo(q, "FAILED")
    /\ UNCHANGED <<uploadVars, provider, tokenVars, posted>>

Posting(q) ==
    \/ req[q].pc = "posting"
    \/ req[q].pc = "ready" /\ ~uploads(q)

\* The post is made and its id returned.
PostAnswered(q) ==
    /\ Posting(q)
    /\ posted' = posted \cup {q}
    /\ moveTo(q, "PUBLISHED")
    /\ UNCHANGED <<uploadVars, provider, tokenVars>>

\* It is made, and the answer is lost or has no id in it.
PostUnanswered(q) ==
    /\ Posting(q)
    /\ posted' = posted \cup {q}
    /\ req' = [req EXCEPT ![q].pc = "FAILED", ![q].silent = TRUE]
    /\ UNCHANGED <<uploadVars, provider, tokenVars>>

PostRefused(q) ==
    /\ Posting(q)
    /\ moveTo(q, "FAILED")
    /\ UNCHANGED <<uploadVars, provider, tokenVars, posted>>

\* Five minutes before its expires_at a token counts as expired.
Expire(t) ==
    /\ t \in fresh
    /\ expiries < MaxExpiries
    /\ fresh' = fresh \ {t}
    /\ expiries' = expiries + 1
    /\ UNCHANGED <<uploadVars, provider, account, connection, issued, live, req,
                   posted, burnt>>

Step(q) ==
    \/ GoogleTypeError(q) \/ Unsuitable(q) \/ TokenIsFresh(q)
    \/ RefreshRefused(q) \/ RefreshGranted(q) \/ RefreshUnanswered(q)
    \/ Store(q) \/ StoreFails(q)
    \/ StartUpload(q) \/ GoOnUploading(q) \/ UploadReturns(q) \/ UploadRaises(q)
    \/ PostAnswered(q) \/ PostUnanswered(q) \/ PostRefused(q)

Next ==
    \/ \E t \in fresh : Expire(t)
    \/ \E q \in Requests : publish_content(q) \/ Step(q)

Spec == Init /\ [][Next]_allVars

FairSpec == Spec /\ \A q \in Requests : WF_allVars(Step(q))

-----------------------------------------------------------------------------
TypeOK ==
    /\ UploadTypeOK
    /\ provider \in Provider
    /\ account \in Tokens
    /\ connection \in Tokens
    /\ issued \in Nat
    /\ live \in 0 .. issued
    /\ fresh \subseteq 1 .. issued
    /\ req \in [Requests -> Request]
    /\ posted \subseteq Requests
    /\ burnt \in BOOLEAN
    /\ expiries \in 0 .. MaxExpiries

\* The refresh token the provider accepts is in the account's row, or on its
\* way there in the hands of one request, unless a pair was issued and dropped:
\* overlapping requests alone never lose the account.  And the connection's
\* row, where there is one, has the same tokens.
TokensReachTheRow ==
    /\ \/ burnt
       \/ account.refresh = live
       \/ \E q \in Requests : req[q].pc = "storing" /\ req[q].given.refresh = live
    /\ connection \in {account, NoRow}

Made(q) == q \in posted \/ (provider = "GOOGLE" /\ Complete(q))

\* PUBLISHED says that the post exists, and FAILED that it does not, unless
\* the provider's last answers were lost or did not say so.
AnswersAreTrue ==
    \A q \in Requests :
        /\ req[q].pc = "PUBLISHED" => Made(q)
        /\ req[q].pc = "FAILED" /\ Made(q) =>
              req[q].silent \/ "silent" \in noted[q]

\* Every request ends, as long as a site does not go on without end to give
\* answers that tell of no progress.
RequestsEnd ==
    \A q \in Requests :
        req[q].pc # "idle" ~> req[q].pc \in {"PUBLISHED", "FAILED"}

=============================================================================
