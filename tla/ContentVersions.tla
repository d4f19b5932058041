--------------------------- MODULE ContentVersions ---------------------------
(***************************************************************************)
(* The versions of a campaign's content: AIContentService creates a row as *)
(* the next version of the current one in its slot (campaign, content type, *)
(* language), edits rows in place and deletes them softly.  A slot stands  *)
(* for the pair of content type and language; the campaign is fixed.       *)
(*                                                                         *)
(* A create reads the latest version in one query and writes two rows from *)
(* what it read, an edit writes the columns that differ from what it read; *)
(* the table has no unique key, so nothing else orders them.  A delete     *)
(* looks the row up again right before it writes and is one step.          *)
(***************************************************************************)
EXTENDS Integers, FiniteSets

CONSTANTS
    Contents,  \* campaign_content rows that may be created
    NoContent,
    Slots,     \* the slots with a language
    Default,   \* the slot whose language is "en"
    Null,      \* the slot of the rows stored without a language
    Requests   \* requests that may be in progress at once

ASSUME ContentAssumption ==
    /\ NoContent \notin Contents
    /\ Default \in Slots
    /\ Null \notin Slots

VARIABLES
    content,  \* the rows
    campaign, \* the campaign is not deleted
    req,      \* what each request is doing and what its session has loaded
    excuses   \* history: what may have left the numbering in disorder

vars == <<content, campaign, req, excuses>>

Row == [version : Nat,                      \* 0: there is no such row
        parent : Contents \cup {NoContent},
        is_current : BOOLEAN,
        slot : Slots \cup {Null},
        deleted : BOOLEAN]
NoRow == [version |-> 0, parent |-> NoContent, is_current |-> FALSE,
          slot |-> Null, deleted |-> FALSE]

Request == [pc : {"idle", "creating", "updating"},
            row : Contents \cup {NoContent}, \* the row loaded
            version : Nat,                   \* its version as loaded
            slot : Slots \cup {Null}]        \* the slot asked for
Idle == [pc |-> "idle", row |-> NoContent, version |-> 0, slot |-> Null]

Init ==
    /\ content = [c \in Contents |-> NoRow]
    /\ campaign = TRUE
    /\ req = [q \in Requests |-> Idle]
    /\ excuses = {}

visible(c) == content[c].version > 0 /\ ~content[c].deleted
versions(s) == {c \in Contents : visible(c) /\ content[c].slot = s}

-----------------------------------------------------------------------------
\* The rows the query may answer with: ORDER BY version DESC LIMIT 1.
get_latest_version(s) ==
    LET found == {c \in versions(s) : content[c].is_current}
    IN  {c \in found : \A d \in found : content[d].version <= content[c].version}

\* Every create looks for the default language.
lookedUpBug(s) == Default

\* A create without a language looks for the default one.
lookedUp(s) == IF s = Null THEN Default ELSE s

CreateRead(q) ==
    /\ req[q].pc = "idle"
    /\ campaign
    /\ \E s \in Slots \cup {Null} :
          LET latest == get_latest_version(lookedUp(s)) IN
          \E c \in (IF latest = {} THEN {NoContent} ELSE latest) :
              req' = [req EXCEPT ![q] =
                  [pc |-> "creating", row |-> c, slot |-> s,
                   version |-> IF c = NoContent THEN 0 ELSE content[c].version]]
    /\ UNCHANGED <<content, campaign, excuses>>

\* The old version stays the current one.
supersededBug(c) == content

superseded(c) ==
    [d \in Contents |-> IF d = c THEN [content[d] EXCEPT !.is_current = FALSE]
                        ELSE content[d]]

\* The number of the latest version is used again.
next_versionBug(seen) == IF seen = 0 THEN 1 ELSE seen

next_version(seen) == seen + 1

\* parent_version_id is given the latest version's number.
newRowBug(q) ==
    [version |-> next_version(req[q].version), parent |-> req[q].version,
     is_current |-> TRUE, slot |-> req[q].slot, deleted |-> FALSE]

newRow(q) ==
    [version |-> next_version(req[q].version), parent |-> req[q].row,
     is_current |-> TRUE, slot |-> req[q].slot, deleted |-> FALSE]

\* The latest version is no longer the one this request has read.
overlapped(q) ==
    LET latest == get_latest_version(lookedUp(req[q].slot))
    IN  IF req[q].row = NoContent THEN latest # {} ELSE req[q].row \notin latest

CreateWrite(q) ==
    /\ req[q].pc = "creating"
    /\ \E n \in Contents :
          /\ content[n].version = 0
          /\ content' = [superseded(req[q].row) EXCEPT ![n] = newRow(q)]
    /\ excuses' = excuses \cup (IF overlapped(q) THEN {"overlap"} ELSE {})
                          \cup (IF req[q].slot = Null THEN {"no_language"} ELSE {})
    /\ req' = [req EXCEPT ![q] = Idle]
    /\ UNCHANGED campaign

-----------------------------------------------------------------------------
\* An edit that leaves content type and language alone changes nothing here.
UpdateRead(q) ==
    /\ req[q].pc = "idle"
    /\ \E c \in Contents : \E s \in (Slots \cup {Null}) \ {content[c].slot} :
          /\ visible(c)
          /\ req' = [req EXCEPT ![q] = [pc |-> "updating", row |-> c, slot |-> s,
                                        version |-> content[c].version]]
    /\ UNCHANGED <<content, campaign, excuses>>

UpdateWrite(q) ==
    /\ req[q].pc = "updating"
    /\ content' = [content EXCEPT ![req[q].row].slot = req[q].slot]
    /\ excuses' = excuses \cup {"moved"}
    /\ req' = [req EXCEPT ![q] = Idle]
    /\ UNCHANGED campaign

\* The version it replaced does not become current again.
delete_content(c) ==
    /\ visible(c)
    /\ content' = [content EXCEPT ![c].deleted = TRUE]
    /\ excuses' = IF content[c].is_current THEN excuses \cup {"current_deleted"}
                  ELSE excuses
    /\ UNCHANGED <<campaign, req>>

\* Content is neither deleted nor hidden with its campaign.
delete_campaign ==
    /\ campaign
    /\ campaign' = FALSE
    /\ UNCHANGED <<content, req, excuses>>

Next ==
    \/ \E q \in Requests :
          CreateRead(q) \/ CreateWrite(q) \/ UpdateRead(q) \/ UpdateWrite(q)
    \/ \E c \in Contents : delete_content(c)
    \/ delete_campaign

Spec == Init /\ [][Next]_vars

-----------------------------------------------------------------------------
TypeOK ==
    /\ content \in [Contents -> Row]
    /\ campaign \in BOOLEAN
    /\ req \in [Requests -> Request]
    /\ excuses \subseteq {"overlap", "no_language", "moved", "current_deleted"}

\* The parent links are a forest numbered by depth: a version without a parent
\* is number 1, any other follows its parent's number, and a version that has a
\* successor is never current again, even if the two were written from reads
\* that others had overtaken.
VersionsFollowParents ==
    \A c \in Contents : content[c].version > 0 =>
        LET p == content[c].parent IN
        IF p = NoContent THEN content[c].version = 1
        ELSE /\ content[p].version > 0
             /\ content[c].version = content[p].version + 1
             /\ ~content[p].is_current

\* A slot has at most one current version, unless two creates overlapped, a
\* row was moved to another slot, or content was stored without a language.
OneCurrentVersion ==
    excuses \subseteq {"current_deleted"} =>
        \A s \in Slots : Cardinality({c \in versions(s) : content[c].is_current}) <= 1

\* In undisturbed use the current version of a slot is its newest: no two
\* versions share a number and the greatest number is the current one.
CurrentIsNewest ==
    excuses = {} =>
        \A s \in Slots : \A c \in versions(s) :
            /\ \A d \in versions(s) : content[c].version = content[d].version => c = d
            /\ content[c].is_current
                  <=> \A d \in versions(s) : content[d].version <= content[c].version

\* The rows as the history of each slot.
made(s) == {c \in Contents : content[c].version > 0 /\ content[c].slot = s}

numbers == [s \in Slots |-> [c \in made(s) |-> content[c].version]]
shown == [s \in Slots |-> {c \in made(s) : content[c].is_current}]
gone == {c \in Contents : content[c].version > 0 /\ content[c].deleted}

History == INSTANCE VersionHistory WITH
    number <- numbers, current <- shown, deleted <- gone, disturbed <- excuses # {}

\* In undisturbed use each slot's versions are a history that only grows, however
\* reads and writes of the slots interleave: the n-th version made is number n,
\* takes the place of its slot's current one and of no other, and what is deleted
\* was not current and leaves its number unused (VersionHistory).
VersionsAreHistory == History!HistorySpec

\* What get_latest_version says it returns ("Get the latest non-deleted version
\* of a specific content type and language."): if a slot has versions, one with
\* the greatest number.
LatestIsFound ==
    \A s \in Slots : versions(s) # {} =>
        \E c \in get_latest_version(s) :
            \A d \in versions(s) : content[d].version <= content[c].version

=============================================================================
