------------------------ MODULE ContentVersionsProofs ------------------------
(***************************************************************************)
(* Proofs about ContentVersions, for any set of rows, slots and requests.  *)
(* VersionsFollowParents is not inductive: a create writes a number it     *)
(* read earlier.  ReadsHold says that such a number cannot go stale: a     *)
(* row, once written, keeps its number, deleted or not.  On top of that,   *)
(* Order relates the current version of a slot to its other ones, and      *)
(* Counted the numbers of all its versions to how many were made, which is *)
(* what it takes to implement VersionHistory.                              *)
(***************************************************************************)
EXTENDS ContentVersions, FiniteSetTheorems, TLAPS

ReadsHold ==
    \A q \in Requests :
        IF req[q].row = NoContent THEN req[q].version = 0
        ELSE /\ content[req[q].row].version > 0
             /\ req[q].version = content[req[q].row].version

IInv == TypeOK /\ VersionsFollowParents /\ ReadsHold

-----------------------------------------------------------------------------
\* The table as a create leaves it: the row read is superseded, the new one added.
LEMMA Created ==
    ASSUME TypeOK, NEW q \in Requests, NEW n \in Contents,
           content' = [superseded(req[q].row) EXCEPT ![n] = newRow(q)]
    PROVE  /\ content' \in [Contents -> Row]
           /\ content'[n] = newRow(q)
           /\ \A c \in Contents \ {n} :
                 content'[c] = IF c = req[q].row
                               THEN [content[c] EXCEPT !.is_current = FALSE]
                               ELSE content[c]
<1>1. req[q] \in Request /\ content \in [Contents -> Row]
  BY DEF TypeOK
<1>2. newRow(q) \in Row
  BY <1>1 DEF newRow, next_version, Request, Row
<1>3. superseded(req[q].row) \in [Contents -> Row]
  BY <1>1 DEF superseded, Row
<1>4. \A c \in Contents : superseded(req[q].row)[c] =
          IF c = req[q].row THEN [content[c] EXCEPT !.is_current = FALSE] ELSE content[c]
  BY DEF superseded
<1> HIDE DEF superseded, newRow
<1> QED
  BY <1>2, <1>3, <1>4

\* A row that is only edited or deleted keeps its place in the forest.
LEMMA Kept ==
    ASSUME VersionsFollowParents, TypeOK,
           content' \in [Contents -> Row],
           \A c \in Contents : /\ content'[c].version = content[c].version
                               /\ content'[c].parent = content[c].parent
                               /\ content'[c].is_current = content[c].is_current
    PROVE  VersionsFollowParents'
<1> SUFFICES ASSUME NEW c \in Contents, content'[c].version > 0
             PROVE  LET p == content'[c].parent IN
                    IF p = NoContent THEN content'[c].version = 1
                    ELSE /\ content'[p].version > 0
                         /\ content'[c].version = content'[p].version + 1
                         /\ ~content'[p].is_current
  BY DEF VersionsFollowParents
<1>1. content[c].parent \in Contents \cup {NoContent}
  BY DEF TypeOK, Row
<1> QED
  BY <1>1 DEF VersionsFollowParents

\* A request that goes on holding what it read, while no row changes its number,
\* goes on holding the number of a row.
LEMMA ReadKept ==
    ASSUME ReadsHold, NEW p \in Requests, req'[p] = req[p],
           req[p].row \in Contents \cup {NoContent},
           \A c \in Contents : content'[c].version = content[c].version
    PROVE  IF req'[p].row = NoContent THEN req'[p].version = 0
           ELSE /\ content'[req'[p].row].version > 0
                /\ req'[p].version = content'[req'[p].row].version
<1> DEFINE r == req[p].row
<1>1. IF r = NoContent THEN req[p].version = 0
      ELSE content[r].version > 0 /\ req[p].version = content[r].version
  BY DEF ReadsHold
<1>2. CASE r = NoContent
  BY <1>1, <1>2
<1>3. CASE r # NoContent
  <2>1. content'[r].version = content[r].version
    BY <1>3
  <2> QED
    BY <1>1, <1>3, <2>1
<1> QED
  BY <1>2, <1>3

-----------------------------------------------------------------------------
LEMMA InitIInv == Init => IInv
<1> SUFFICES ASSUME Init PROVE IInv
  OBVIOUS
<1>1. NoRow \in Row /\ Idle \in Request
  BY DEF NoRow, Idle, Row, Request
<1>2. TypeOK
  BY <1>1 DEF Init, TypeOK
<1>3. VersionsFollowParents
  BY DEF Init, VersionsFollowParents, NoRow
<1>4. ReadsHold
  BY DEF Init, ReadsHold, Idle
<1> QED
  BY <1>2, <1>3, <1>4 DEF IInv

LEMMA CreateReadKeeps == \A q \in Requests : IInv /\ CreateRead(q) => IInv'
<1> SUFFICES ASSUME NEW q \in Requests, IInv, CreateRead(q) PROVE IInv'
  OBVIOUS
<1> USE DEF IInv
<1>1. PICK s \in Slots \cup {Null} :
        \E c \in (IF get_latest_version(lookedUp(s)) = {} THEN {NoContent}
                  ELSE get_latest_version(lookedUp(s))) :
           req' = [req EXCEPT ![q] =
               [pc |-> "creating", row |-> c, slot |-> s,
                version |-> IF c = NoContent THEN 0 ELSE content[c].version]]
  BY DEF CreateRead
<1>1a. PICK c \in (IF get_latest_version(lookedUp(s)) = {} THEN {NoContent}
                  ELSE get_latest_version(lookedUp(s))) :
        req' = [req EXCEPT ![q] =
            [pc |-> "creating", row |-> c, slot |-> s,
             version |-> IF c = NoContent THEN 0 ELSE content[c].version]]
  BY <1>1
<1>2. UNCHANGED <<content, campaign, excuses>>
  BY DEF CreateRead
<1>3. c = NoContent \/ (c \in Contents /\ content[c].version > 0)
  BY <1>1a DEF get_latest_version, versions, visible
<1>4. TypeOK'
  <2>1. c \in Contents => content[c].version \in Nat
    BY DEF TypeOK, Row
  <2>2. [pc |-> "creating", row |-> c, slot |-> s,
         version |-> IF c = NoContent THEN 0 ELSE content[c].version] \in Request
    BY <2>1, <1>3 DEF Request
  <2> QED
    BY <2>2, <1>1a, <1>2 DEF TypeOK
<1>5. VersionsFollowParents'
  BY <1>2 DEF VersionsFollowParents
<1>6. ReadsHold'
  BY <1>1a, <1>2, <1>3 DEF ReadsHold, TypeOK
<1> QED
  BY <1>4, <1>5, <1>6

LEMMA CreateWriteKeeps == \A q \in Requests : IInv /\ CreateWrite(q) => IInv'
<1> SUFFICES ASSUME NEW q \in Requests, IInv, CreateWrite(q) PROVE IInv'
  OBVIOUS
<1> USE DEF IInv
<1>1. PICK n \in Contents :
        /\ content[n].version = 0
        /\ content' = [superseded(req[q].row) EXCEPT ![n] = newRow(q)]
  BY DEF CreateWrite
<1>2. /\ req' = [req EXCEPT ![q] = Idle]
      /\ campaign' = campaign
      /\ excuses' \subseteq excuses \cup {"overlap", "no_language"}
  BY DEF CreateWrite
<1> DEFINE r == req[q].row
<1>3. /\ content' \in [Contents -> Row]
      /\ content'[n] = newRow(q)
      /\ \A c \in Contents \ {n} :
            content'[c] = IF c = r THEN [content[c] EXCEPT !.is_current = FALSE]
                          ELSE content[c]
  BY <1>1, Created
<1>4. \A c \in Contents \ {n} : /\ content'[c].version = content[c].version
                                /\ content'[c].parent = content[c].parent
                                /\ content[c].is_current = FALSE => content'[c].is_current = FALSE
  <2> SUFFICES ASSUME NEW c \in Contents \ {n}
               PROVE  /\ content'[c].version = content[c].version
                      /\ content'[c].parent = content[c].parent
                      /\ content[c].is_current = FALSE => content'[c].is_current = FALSE
    OBVIOUS
  <2>1. content[c] \in Row
    BY DEF TypeOK
  <2>2. content'[c] = IF c = r THEN [content[c] EXCEPT !.is_current = FALSE]
                      ELSE content[c]
    BY <1>3
  <2> QED
    BY <2>1, <2>2 DEF Row
<1>5. req \in [Requests -> Request] /\ content \in [Contents -> Row]
  BY DEF TypeOK
<1>6. TypeOK'
  <2>1. Idle \in Request
    BY DEF Idle, Request
  <2> QED
    BY <2>1, <1>2, <1>3 DEF TypeOK
<1>7. r # NoContent => r \in Contents \ {n} /\ content[r].version > 0
                       /\ req[q].version = content[r].version
  BY <1>1, <1>5 DEF ReadsHold, Request
<1>8. VersionsFollowParents'
  <2> SUFFICES ASSUME NEW c \in Contents, content'[c].version > 0
               PROVE  LET p == content'[c].parent IN
                      IF p = NoContent THEN content'[c].version = 1
                      ELSE /\ content'[p].version > 0
                           /\ content'[c].version = content'[p].version + 1
                           /\ ~content'[p].is_current
    BY DEF VersionsFollowParents
  <2>1. CASE c = n
    <3>1. content'[c].parent = r /\ content'[c].version = req[q].version + 1
      BY <2>1, <1>3 DEF newRow, next_version
    <3>2. CASE r = NoContent
      BY <3>1, <3>2 DEF ReadsHold
    <3>3. CASE r # NoContent
      <4>1. content'[r].version = content[r].version /\ ~content'[r].is_current
        BY <3>3, <1>3, <1>5, <1>7 DEF Row
      <4> QED
        BY <3>1, <3>3, <4>1, <1>7
    <3> QED
      BY <3>2, <3>3
  <2>2. CASE c # n
    <3>1. content[c].version > 0 /\ content'[c].parent = content[c].parent
          /\ content'[c].version = content[c].version
      BY <2>2, <1>4
    <3>2. content[c].parent \in Contents \cup {NoContent}
      BY <1>5 DEF Row
    <3>3. CASE content[c].parent = NoContent
      BY <3>1, <3>3 DEF VersionsFollowParents
    <3>4. CASE content[c].parent # NoContent
      <4> DEFINE p == content[c].parent
      <4>1. content[p].version > 0 /\ content[c].version = content[p].version + 1
            /\ ~content[p].is_current
        BY <3>1, <3>4 DEF VersionsFollowParents
      <4>2. p \in Contents \ {n}
        BY <4>1, <3>2, <3>4, <1>1
      <4>3. content[p].is_current \in BOOLEAN /\ content'[p].is_current \in BOOLEAN
        BY <4>2, <1>3, <1>5 DEF Row
      <4>4. content'[p].version = content[p].version /\ ~content'[p].is_current
        BY <4>1, <4>2, <4>3, <1>4
      <4> QED
        BY <3>1, <3>4, <4>1, <4>4
    <3> QED
      BY <3>3, <3>4
  <2> QED
    BY <2>1, <2>2
<1>9. ReadsHold'
  <2> SUFFICES ASSUME NEW p \in Requests
               PROVE  IF req'[p].row = NoContent THEN req'[p].version = 0
                      ELSE /\ content'[req'[p].row].version > 0
                           /\ req'[p].version = content'[req'[p].row].version
    BY DEF ReadsHold
  <2>1. CASE p = q
    BY <2>1, <1>2, <1>5 DEF Idle
  <2>2. CASE p # q
    <3>1. req'[p] = req[p]
      BY <2>2, <1>2, <1>5
    <3>2. req[p].row # NoContent => req[p].row \in Contents \ {n}
      BY <1>1, <1>5 DEF ReadsHold, Request
    <3> QED
      BY <3>1, <3>2, <1>4 DEF ReadsHold
  <2> QED
    BY <2>1, <2>2
<1> QED
  BY <1>6, <1>8, <1>9

LEMMA UpdateReadKeeps == \A q \in Requests : IInv /\ UpdateRead(q) => IInv'
<1> SUFFICES ASSUME NEW q \in Requests, IInv, UpdateRead(q) PROVE IInv'
  OBVIOUS
<1> USE DEF IInv
<1>1. PICK c \in Contents, s \in Slots \cup {Null} :
        /\ visible(c)
        /\ req' = [req EXCEPT ![q] = [pc |-> "updating", row |-> c, slot |-> s,
                                      version |-> content[c].version]]
  BY DEF UpdateRead
<1>2. UNCHANGED <<content, campaign, excuses>>
  BY DEF UpdateRead
<1>3. TypeOK'
  <2>1. content[c].version \in Nat
    BY DEF TypeOK, Row
  <2>2. [pc |-> "updating", row |-> c, slot |-> s, version |-> content[c].version]
            \in Request
    BY <2>1 DEF Request
  <2> QED
    BY <2>2, <1>1, <1>2 DEF TypeOK
<1>4. VersionsFollowParents'
  BY <1>2 DEF VersionsFollowParents
<1>5. ReadsHold'
  <2>1. c # NoContent
    BY ContentAssumption
  <2> QED
    BY <2>1, <1>1, <1>2 DEF ReadsHold, TypeOK, visible
<1> QED
  BY <1>3, <1>4, <1>5

LEMMA UpdateWriteKeeps == \A q \in Requests : IInv /\ UpdateWrite(q) => IInv'
<1> SUFFICES ASSUME NEW q \in Requests, IInv, UpdateWrite(q) PROVE IInv'
  OBVIOUS
<1> USE DEF IInv
<1>1. /\ content' = [content EXCEPT ![req[q].row].slot = req[q].slot]
      /\ req' = [req EXCEPT ![q] = Idle]
      /\ campaign' = campaign
      /\ excuses' = excuses \cup {"moved"}
  BY DEF UpdateWrite
<1>2. req \in [Requests -> Request] /\ content \in [Contents -> Row]
  BY DEF TypeOK
<1>3. req[q].slot \in Slots \cup {Null}
  BY <1>2 DEF Request
<1>4. content' \in [Contents -> Row]
  BY <1>1, <1>2, <1>3 DEF Row
<1>5. \A c \in Contents : /\ content'[c].version = content[c].version
                          /\ content'[c].parent = content[c].parent
                          /\ content'[c].is_current = content[c].is_current
  BY <1>1, <1>2 DEF Row
<1>6. TypeOK'
  <2>1. Idle \in Request
    BY DEF Idle, Request
  <2> QED
    BY <2>1, <1>1, <1>4 DEF TypeOK
<1>7. VersionsFollowParents'
  BY <1>4, <1>5, Kept
<1>8. ReadsHold'
  <2> SUFFICES ASSUME NEW p \in Requests
               PROVE  IF req'[p].row = NoContent THEN req'[p].version = 0
                      ELSE /\ content'[req'[p].row].version > 0
                           /\ req'[p].version = content'[req'[p].row].version
    BY DEF ReadsHold
  <2>1. CASE p = q
    BY <2>1, <1>1, <1>2 DEF Idle
  <2>2. CASE p # q
    <3>1. req'[p] = req[p]
      BY <2>2, <1>1, <1>2
    <3>2. req[p].row \in Contents \cup {NoContent}
      BY <1>2 DEF Request
    <3> QED
      BY <3>1, <3>2, <1>5, ReadKept
  <2> QED
    BY <2>1, <2>2
<1> QED
  BY <1>6, <1>7, <1>8

LEMMA DeleteKeeps == \A c \in Contents : IInv /\ delete_content(c) => IInv'
<1> SUFFICES ASSUME NEW c \in Contents, IInv, delete_content(c) PROVE IInv'
  OBVIOUS
<1> USE DEF IInv
<1>1. /\ content' = [content EXCEPT ![c].deleted = TRUE]
      /\ excuses' \subseteq excuses \cup {"current_deleted"}
      /\ UNCHANGED <<campaign, req>>
  BY DEF delete_content
<1>2. content \in [Contents -> Row]
  BY DEF TypeOK
<1>3. content' \in [Contents -> Row]
  BY <1>1, <1>2 DEF Row
<1>4. \A d \in Contents : /\ content'[d].version = content[d].version
                          /\ content'[d].parent = content[d].parent
                          /\ content'[d].is_current = content[d].is_current
  BY <1>1, <1>2 DEF Row
<1>5. TypeOK'
  BY <1>1, <1>3 DEF TypeOK
<1>6. VersionsFollowParents'
  BY <1>3, <1>4, Kept
<1>7. ReadsHold'
  <2> SUFFICES ASSUME NEW p \in Requests
               PROVE  IF req'[p].row = NoContent THEN req'[p].version = 0
                      ELSE /\ content'[req'[p].row].version > 0
                           /\ req'[p].version = content'[req'[p].row].version
    BY DEF ReadsHold
  <2>1. req'[p] = req[p]
    BY <1>1
  <2>2. req[p].row \in Contents \cup {NoContent}
    BY DEF TypeOK, Request
  <2> QED
    BY <2>1, <2>2, <1>4, ReadKept
<1> QED
  BY <1>5, <1>6, <1>7

LEMMA StepIInv == IInv /\ [Next]_vars => IInv'
<1> SUFFICES ASSUME IInv, [Next]_vars PROVE IInv'
  OBVIOUS
<1>1. CASE \E q \in Requests : CreateRead(q)
  BY <1>1, CreateReadKeeps
<1>2. CASE \E q \in Requests : CreateWrite(q)
  BY <1>2, CreateWriteKeeps
<1>3. CASE \E q \in Requests : UpdateRead(q)
  BY <1>3, UpdateReadKeeps
<1>4. CASE \E q \in Requests : UpdateWrite(q)
  BY <1>4, UpdateWriteKeeps
<1>5. CASE \E c \in Contents : delete_content(c)
  BY <1>5, DeleteKeeps
<1>6. CASE delete_campaign
  <2>1. UNCHANGED <<content, req, excuses>> /\ campaign' = FALSE
    BY <1>6 DEF delete_campaign
  <2> QED
    BY <2>1 DEF IInv, TypeOK, VersionsFollowParents, ReadsHold
<1>7. CASE UNCHANGED vars
  BY <1>7 DEF vars, IInv, TypeOK, VersionsFollowParents, ReadsHold
<1> QED
  BY <1>1, <1>2, <1>3, <1>4, <1>5, <1>6, <1>7 DEF Next

-----------------------------------------------------------------------------
\* OneCurrentVersion and CurrentIsNewest without counting.  That versions have a
\* current one among them is what makes a number that follows it the greatest.
OneCurrent ==
    excuses \subseteq {"current_deleted"} =>
        \A s \in Slots : \A c, d \in versions(s) :
            content[c].is_current /\ content[d].is_current => c = d

Newest(s) ==
    /\ versions(s) # {} => \E c \in versions(s) : content[c].is_current
    /\ \A c \in versions(s) :
          /\ \A d \in versions(s) : content[c].version = content[d].version => c = d
          /\ content[c].is_current
                <=> \A d \in versions(s) : content[d].version <= content[c].version

Order == OneCurrent /\ (excuses = {} => \A s \in Slots : Newest(s))

LEMMA LatestIsCurrent ==
    ASSUME TypeOK, OneCurrent, excuses \subseteq {"current_deleted"},
           NEW s \in Slots, NEW c \in versions(s), content[c].is_current
    PROVE  get_latest_version(s) = {c}
<1> DEFINE found == {d \in versions(s) : content[d].is_current}
<1>1. found = {c}
  BY DEF OneCurrent
<1>2. content[c].version \in Nat
  BY DEF TypeOK, Row, versions
<1>3. content[c].version <= content[c].version
  BY <1>2
<1>4. get_latest_version(s) = {d \in found : \A e \in found : content[e].version <= content[d].version}
  BY DEF get_latest_version
<1> QED
  BY <1>1, <1>3, <1>4

\* Steps that change no row and excuse nothing.
LEMMA OrderStays ==
    ASSUME Order, UNCHANGED <<content, excuses>>
    PROVE  Order'
  BY DEF Order, OneCurrent, Newest, versions, visible

LEMMA CreateWriteOrders ==
    ASSUME IInv, Order, NEW q \in Requests, CreateWrite(q)
    PROVE  Order'
<1>0. PICK r, t : r = req[q].row /\ t = req[q].slot
  OBVIOUS
<1>1. PICK n \in Contents :
        /\ content[n].version = 0
        /\ content' = [superseded(req[q].row) EXCEPT ![n] = newRow(q)]
  BY DEF CreateWrite
<1>2. TypeOK /\ content \in [Contents -> Row] /\ req[q] \in Request
  BY DEF IInv, TypeOK
<1>3. /\ content'[n] = newRow(q)
      /\ \A c \in Contents \ {n} :
            content'[c] = IF c = r THEN [content[c] EXCEPT !.is_current = FALSE]
                          ELSE content[c]
  BY <1>0, <1>1, <1>2, Created
<1>4. /\ content'[n].version = req[q].version + 1 /\ content'[n].is_current
      /\ content'[n].slot = t /\ ~content'[n].deleted
  BY <1>0, <1>3 DEF newRow, next_version
<1>5. \A c \in Contents \ {n} :
        /\ content'[c].version = content[c].version
        /\ content'[c].slot = content[c].slot
        /\ content'[c].deleted = content[c].deleted
        /\ content'[c].is_current = IF c = r THEN FALSE ELSE content[c].is_current
  <2> TAKE c \in Contents \ {n}
  <2>1. content[c] \in Row
    BY <1>2
  <2>2. content'[c] = IF c = r THEN [content[c] EXCEPT !.is_current = FALSE]
                      ELSE content[c]
    BY <1>3
  <2> QED
    BY <2>1, <2>2 DEF Row
<1>6. req[q].version \in Nat /\ t \in Slots \cup {Null}
  BY <1>0, <1>2 DEF Request
<1> SUFFICES ASSUME excuses' \subseteq {"current_deleted"} PROVE Order'
  BY DEF Order, OneCurrent
<1>7. excuses \subseteq excuses' /\ ~overlapped(q) /\ t # Null
  BY <1>0 DEF CreateWrite
<1>8. t \in Slots /\ lookedUp(t) = t
  BY <1>6, <1>7 DEF lookedUp
<1>9. OneCurrent /\ excuses \subseteq {"current_deleted"}
  BY <1>7 DEF Order
<1>10. r # NoContent => r \in versions(t) /\ content[r].is_current
  BY <1>0, <1>7, <1>8 DEF overlapped, get_latest_version
<1>11. ASSUME NEW c \in versions(t), content[c].is_current PROVE c = r
  <2>1. get_latest_version(t) = {c}
    BY <1>2, <1>8, <1>9, <1>11, LatestIsCurrent
  <2> QED
    BY <1>0, <1>7, <1>8, <2>1 DEF overlapped
<1>12. \A s \in Slots : n \notin versions(s) /\ versions(s) \subseteq Contents
  BY <1>1 DEF versions, visible
<1>13. \A s \in Slots \ {t} : versions(s)' = versions(s) /\ r \notin versions(s)
  <2> TAKE s \in Slots \ {t}
  <2>1. r \notin versions(s)
    BY <1>10, ContentAssumption DEF versions
  <2>2. n \notin versions(s)'
    BY <1>4 DEF versions
  <2>3. \A c \in Contents \ {n} : c \in versions(s)' <=> c \in versions(s)
    BY <1>5 DEF versions, visible
  <2> QED
    BY <2>1, <2>2, <2>3, <1>12 DEF versions
<1>14. versions(t)' = versions(t) \cup {n}
  <2>1. n \in versions(t)'
    BY <1>4, <1>6 DEF versions, visible
  <2>2. \A c \in Contents \ {n} : c \in versions(t)' <=> c \in versions(t)
    BY <1>5 DEF versions, visible
  <2> QED
    BY <2>1, <2>2, <1>12 DEF versions
<1>15. \A c \in versions(t) : ~content'[c].is_current
  BY <1>5, <1>8, <1>11, <1>12
<1>16. OneCurrent'
  <2> SUFFICES ASSUME NEW s \in Slots, NEW c \in versions(s)', NEW d \in versions(s)',
                      content'[c].is_current, content'[d].is_current
               PROVE  c = d
    BY DEF OneCurrent
  <2>1. CASE s = t
    BY <2>1, <1>14, <1>15
  <2>2. CASE s # t
    <3>1. c \in versions(s) /\ d \in versions(s) /\ c # n /\ d # n
          /\ c \in Contents /\ d \in Contents /\ c # r /\ d # r
      BY <2>2, <1>12, <1>13
    <3> QED
      BY <3>1, <1>5, <1>9 DEF OneCurrent
  <2> QED
    BY <2>1, <2>2
<1>17. ASSUME excuses' = {}, NEW s \in Slots PROVE Newest(s)'
  <2>1. Newest(s)
    BY <1>7, <1>17 DEF Order
  <2>2. CASE s # t
    <3>1. versions(s)' = versions(s)
      BY <1>13, <2>2
    <3>2. \A c \in versions(s) : content'[c].version = content[c].version
                                 /\ content'[c].is_current = content[c].is_current
      BY <1>5, <1>12, <1>13, <2>2
    <3> QED
      BY <2>1, <3>1, <3>2 DEF Newest
  <2>3. CASE s = t
    <3>1. \A d \in versions(t) : content[d].version <= req[q].version
      <4> SUFFICES ASSUME NEW d \in versions(t)
                   PROVE  content[d].version <= req[q].version
        OBVIOUS
      <4>1. PICK e \in versions(t) : content[e].is_current
        BY <2>1, <2>3 DEF Newest
      <4>2. e = r /\ e \in Contents
        BY <1>8, <1>11, <1>12, <4>1
      <4>3. req[q].version = content[r].version
        BY <1>0, <4>2, ContentAssumption DEF IInv, ReadsHold
      <4> QED
        BY <2>1, <2>3, <4>1, <4>2, <4>3 DEF Newest
    <3>2. \A d \in versions(t) : /\ content'[d].version = content[d].version
                                 /\ content[d].version \in Nat
      BY <1>2, <1>5, <1>8, <1>12 DEF Row
    <3>3. \A d \in versions(t) : content'[d].version < content'[n].version
      BY <1>4, <1>6, <3>1, <3>2
    <3>4. content'[n].version \in Nat
      BY <1>4, <1>6
    <3>5. /\ \E c \in versions(t)' : content'[c].is_current
          /\ \A c \in versions(t)' :
                content'[c].is_current
                  <=> \A d \in versions(t)' : content'[d].version <= content'[c].version
      <4>1. \A d \in versions(t)' : content'[d].version <= content'[n].version
        BY <1>14, <3>2, <3>3, <3>4
      <4>2. \A c \in versions(t) : ~(content'[n].version <= content'[c].version)
        BY <3>2, <3>3, <3>4
      <4> QED
        BY <1>4, <1>14, <1>15, <4>1, <4>2
    <3>6. \A c, d \in versions(t)' : content'[c].version = content'[d].version => c = d
      <4>1. \A c, d \in versions(t) : content'[c].version = content'[d].version => c = d
        BY <2>1, <2>3, <3>2 DEF Newest
      <4>2. \A d \in versions(t) : content'[d].version # content'[n].version
        BY <3>2, <3>3, <3>4
      <4> QED
        BY <1>14, <4>1, <4>2
    <3> QED
      BY <2>3, <3>5, <3>6 DEF Newest
  <2> QED
    BY <2>2, <2>3
<1> QED
  BY <1>16, <1>17 DEF Order

LEMMA DeleteOrders ==
    ASSUME IInv, Order, NEW c \in Contents, delete_content(c)
    PROVE  Order'
<1>1. /\ visible(c) /\ content' = [content EXCEPT ![c].deleted = TRUE]
      /\ excuses' = IF content[c].is_current THEN excuses \cup {"current_deleted"}
                    ELSE excuses
  BY DEF delete_content
<1>2. content \in [Contents -> Row]
  BY DEF IInv, TypeOK
<1>3. \A d \in Contents : /\ content'[d].version = content[d].version
                          /\ content'[d].slot = content[d].slot
                          /\ content'[d].is_current = content[d].is_current
                          /\ content'[d].deleted = (content[d].deleted \/ d = c)
  BY <1>1, <1>2 DEF Row
<1>4. \A s \in Slots : /\ versions(s)' = versions(s) \ {c}
                       /\ versions(s) \subseteq Contents
  BY <1>3 DEF versions, visible
<1>5. OneCurrent'
  <2>1. excuses \subseteq excuses'
    BY <1>1
  <2> QED
    BY <1>3, <1>4, <2>1 DEF Order, OneCurrent
<1>6. ASSUME excuses' = {}, NEW s \in Slots PROVE Newest(s)'
  <2>1. Newest(s) /\ ~content[c].is_current
    BY <1>1, <1>6 DEF Order
  <2>2. \A d \in versions(s) : content[d].version \in Nat
    BY <1>2, <1>4 DEF Row
  <2>3. versions(s) # {} => \E e \in versions(s) \ {c} : content[e].is_current
    BY <2>1 DEF Newest
  <2>4. ASSUME NEW d \in versions(s) \ {c},
               \A e \in versions(s) \ {c} : content[e].version <= content[d].version
        PROVE  content[d].is_current
    <3>1. PICK e \in versions(s) \ {c} : content[e].is_current
      BY <2>3
    <3>2. content[e].version <= content[d].version
      BY <2>4
    <3>3. \A f \in versions(s) : content[f].version <= content[e].version
      BY <2>1, <3>1 DEF Newest
    <3>4. \A f \in versions(s) : content[f].version <= content[d].version
      BY <2>2, <3>2, <3>3
    <3> QED
      BY <2>1, <3>4 DEF Newest
  <2>5. /\ versions(s) \ {c} # {} => \E e \in versions(s) \ {c} : content[e].is_current
        /\ \A d \in versions(s) \ {c} :
              /\ \A e \in versions(s) \ {c} : content[d].version = content[e].version => d = e
              /\ content[d].is_current
                    <=> \A e \in versions(s) \ {c} : content[e].version <= content[d].version
    BY <2>1, <2>3, <2>4 DEF Newest
  <2>6. \A d \in versions(s) \ {c} : content'[d].version = content[d].version
                                     /\ content'[d].is_current = content[d].is_current
    BY <1>3, <1>4
  <2> QED
    BY <1>4, <2>5, <2>6 DEF Newest
<1> QED
  BY <1>5, <1>6 DEF Order

LEMMA InitOrder == Init => Order
  BY DEF Init, NoRow, Order, OneCurrent, Newest, versions, visible

LEMMA StepOrder == IInv /\ Order /\ [Next]_vars => Order'
<1> SUFFICES ASSUME IInv, Order, [Next]_vars PROVE Order'
  OBVIOUS
<1>1. CASE \E q \in Requests : CreateRead(q) \/ UpdateRead(q)
  BY <1>1, OrderStays DEF CreateRead, UpdateRead
<1>2. CASE \E q \in Requests : CreateWrite(q)
  BY <1>2, CreateWriteOrders
<1>3. CASE \E q \in Requests : UpdateWrite(q)
  BY <1>3 DEF UpdateWrite, Order, OneCurrent
<1>4. CASE \E c \in Contents : delete_content(c)
  BY <1>4, DeleteOrders
<1>5. CASE delete_campaign \/ UNCHANGED vars
  BY <1>5, OrderStays DEF delete_campaign, vars
<1> QED
  BY <1>1, <1>2, <1>3, <1>4, <1>5 DEF Next

-----------------------------------------------------------------------------
\* Every table AIContentService reaches is well-formed, and so is what each
\* request in progress holds.
THEOREM ContentTypes == Spec => []TypeOK
<1>1. IInv => TypeOK
  BY DEF IInv
<1> QED
  BY <1>1, InitIInv, StepIInv, PTL DEF Spec

\* However creates, edits and deletions of content overlap, the parent links
\* are a forest numbered by depth, whose inner versions are not current.
THEOREM ParentsAreFollowed == Spec => []VersionsFollowParents
<1>1. IInv => VersionsFollowParents
  BY DEF IInv
<1> QED
  BY <1>1, InitIInv, StepIInv, PTL DEF Spec

\* Creates that do not overlap, in any number and with deletions between them,
\* leave a slot one current version at most.
THEOREM OneIsCurrent == Spec => []OneCurrentVersion
<1>1. ASSUME Order PROVE OneCurrentVersion
  <2> SUFFICES ASSUME excuses \subseteq {"current_deleted"}, NEW s \in Slots
               PROVE  Cardinality({c \in versions(s) : content[c].is_current}) <= 1
    BY DEF OneCurrentVersion
  <2> DEFINE found == {c \in versions(s) : content[c].is_current}
  <2>1. \A c, d \in found : c = d
    BY <1>1 DEF Order, OneCurrent
  <2>2. CASE found = {}
    <3>1. Cardinality(found) = 0
      BY <2>2, FS_EmptySet
    <3> QED
      BY <3>1
  <2>3. CASE found # {}
    <3>1. PICK c : found = {c}
      BY <2>1, <2>3
    <3>2. Cardinality(found) = 1
      BY <3>1, FS_Singleton
    <3> QED
      BY <3>2
  <2> QED
    BY <2>2, <2>3
<1> QED
  BY <1>1, InitIInv, StepIInv, InitOrder, StepOrder, PTL DEF Spec

\* As long as nothing disturbs it, the current version of a slot is its newest,
\* however many versions and deletions of old ones there were.
THEOREM NewestIsCurrent == Spec => []CurrentIsNewest
<1>1. Order => CurrentIsNewest
  BY DEF Order, Newest, CurrentIsNewest
<1> QED
  BY <1>1, InitIInv, StepIInv, InitOrder, StepOrder, PTL DEF Spec

-----------------------------------------------------------------------------
(***************************************************************************)
(* Undisturbed, the versions of a slot are numbered in the order they were *)
(* made, deleted ones included.  Order only speaks of those not deleted:   *)
(* that no number is used again is what Counted adds.                      *)
(***************************************************************************)
Numbered(s) ==
    LET n == Cardinality(made(s)) IN
    /\ IsFiniteSet(made(s))
    /\ n > 0 => \E c \in made(s) : content[c].version = n
    /\ \A c \in made(s) :
          /\ content[c].version \in 1 .. n
          /\ content[c].is_current <=> content[c].version = n
          /\ content[c].is_current => ~content[c].deleted
    /\ \A c, d \in made(s) : content[c].version = content[d].version => c = d

Counted ==
    excuses = {} =>
        /\ \A c \in Contents : content[c].version > 0 => content[c].slot \in Slots
        /\ \A s \in Slots : Numbered(s)

LEMMA InitCounted == Init => Counted
<1> SUFFICES ASSUME Init PROVE Counted
  OBVIOUS
<1>1. \A c \in Contents : ~ (content[c].version > 0)
  BY DEF Init, NoRow
<1>2. ASSUME NEW s \in Slots PROVE Numbered(s)
  <2>1. made(s) = {}
    BY <1>1 DEF made
  <2> QED
    BY <2>1, FS_EmptySet DEF Numbered
<1> QED
  BY <1>1, <1>2 DEF Counted

\* What a create that disturbs nothing does: the row n is the next version of s.
Follows(s, n) ==
    /\ content[n].version = 0
    /\ content'[n].version = Cardinality(made(s)) + 1
    /\ content'[n].is_current
    /\ content'[n].slot = s
    /\ ~content'[n].deleted
    /\ \A c \in Contents \ {n} :
          /\ content'[c].version = content[c].version
          /\ content'[c].slot = content[c].slot
          /\ content'[c].deleted = content[c].deleted
          /\ content'[c].is_current = IF c \in made(s) THEN FALSE ELSE content[c].is_current

\* create_version reads the latest version in one query and inserts in another; if
\* no one else has created between them, the number it writes is the next one.
LEMMA CreateFollows ==
    ASSUME IInv, Order, Counted, NEW q \in Requests, CreateWrite(q), excuses' = {}
    PROVE  \E s \in Slots, n \in Contents : Follows(s, n)
<1>0. PICK r, t : r = req[q].row /\ t = req[q].slot
  OBVIOUS
<1>1. PICK n \in Contents :
        /\ content[n].version = 0
        /\ content' = [superseded(req[q].row) EXCEPT ![n] = newRow(q)]
  BY DEF CreateWrite
<1>2. TypeOK /\ content \in [Contents -> Row] /\ req[q] \in Request
  BY DEF IInv, TypeOK
<1>3. /\ content'[n] = newRow(q)
      /\ \A c \in Contents \ {n} :
            content'[c] = IF c = r THEN [content[c] EXCEPT !.is_current = FALSE]
                          ELSE content[c]
  BY <1>0, <1>1, <1>2, Created
<1>4. /\ content'[n].version = req[q].version + 1 /\ content'[n].is_current
      /\ content'[n].slot = t /\ ~content'[n].deleted
  BY <1>0, <1>3 DEF newRow, next_version
<1>5. \A c \in Contents \ {n} :
        /\ content'[c].version = content[c].version
        /\ content'[c].slot = content[c].slot
        /\ content'[c].deleted = content[c].deleted
        /\ content'[c].is_current = IF c = r THEN FALSE ELSE content[c].is_current
  <2> TAKE c \in Contents \ {n}
  <2>1. content[c] \in Row
    BY <1>2
  <2>2. content'[c] = IF c = r THEN [content[c] EXCEPT !.is_current = FALSE]
                      ELSE content[c]
    BY <1>3
  <2> QED
    BY <2>1, <2>2 DEF Row
<1>6. excuses = {} /\ ~overlapped(q) /\ t # Null
  BY <1>0 DEF CreateWrite
<1>7. t \in Slots /\ lookedUp(t) = t
  <2>1. t \in Slots \cup {Null}
    BY <1>0, <1>2 DEF Request
  <2> QED
    BY <1>6, <2>1 DEF lookedUp
<1>8. OneCurrent /\ Numbered(t)
  BY <1>6, <1>7 DEF Order, Counted
<1>9. r # NoContent => r \in versions(t) /\ content[r].is_current
  BY <1>0, <1>6, <1>7 DEF overlapped, get_latest_version
<1>10. ASSUME NEW c \in versions(t), content[c].is_current PROVE c = r
  <2>1. get_latest_version(t) = {c}
    BY <1>2, <1>6, <1>7, <1>8, <1>10, LatestIsCurrent
  <2> QED
    BY <1>0, <1>6, <1>7, <2>1 DEF overlapped
<1>11. \A c \in made(t) : content[c].is_current => c = r
  <2> SUFFICES ASSUME NEW c \in made(t), content[c].is_current
               PROVE  c = r
    OBVIOUS
  <2>1. c \in versions(t)
    BY <1>8 DEF Numbered, made, versions, visible
  <2> QED
    BY <1>10, <2>1
<1>12. req[q].version = Cardinality(made(t))
  <2>1. CASE r = NoContent
    <3>1. made(t) = {}
      <4> SUFFICES ASSUME made(t) # {}
                   PROVE  FALSE
        OBVIOUS
      <4>1. Cardinality(made(t)) > 0
        BY <1>8, FS_EmptySet, FS_CardinalityType DEF Numbered
      <4>2. PICK c \in made(t) : content[c].is_current
        BY <1>8, <4>1 DEF Numbered
      <4> QED
        BY <1>11, <2>1, <4>2, ContentAssumption DEF made
    <3>2. req[q].version = 0
      BY <1>0, <2>1 DEF IInv, ReadsHold
    <3> QED
      BY <3>1, <3>2, FS_EmptySet
  <2>2. CASE r # NoContent
    <3>1. r \in made(t) /\ content[r].is_current
      BY <1>9, <2>2 DEF made, versions, visible
    <3>2. content[r].version = Cardinality(made(t))
      BY <1>8, <3>1 DEF Numbered
    <3>3. req[q].version = content[r].version
      BY <1>0, <2>2 DEF IInv, ReadsHold
    <3> QED
      BY <3>2, <3>3
  <2> QED
    BY <2>1, <2>2
<1>13. \A c \in Contents \ {n} :
         content'[c].is_current = IF c \in made(t) THEN FALSE ELSE content[c].is_current
  <2> TAKE c \in Contents \ {n}
  <2>1. content[c].is_current \in BOOLEAN
    BY <1>2 DEF Row
  <2>2. c = r => c \in made(t)
    BY <1>9, ContentAssumption DEF made, versions, visible
  <2> QED
    BY <1>5, <1>11, <2>1, <2>2
<1>14. Follows(t, n)
  BY <1>1, <1>4, <1>5, <1>12, <1>13 DEF Follows
<1> QED
  BY <1>7, <1>14

\* The rows of each slot after such a create.
LEMMA MadeAfter ==
    ASSUME NEW s \in Slots, NEW n \in Contents, Follows(s, n), Numbered(s)
    PROVE  /\ n \notin made(s)
           /\ made(s)' = made(s) \cup {n}
           /\ \A u \in Slots \ {s} : made(u)' = made(u)
           /\ Cardinality(made(s)) \in Nat
           /\ IsFiniteSet(made(s)')
           /\ Cardinality(made(s)') = Cardinality(made(s)) + 1
<1>1. \A u \in Slots : n \notin made(u) /\ made(u) \subseteq Contents
  BY DEF made, Follows
<1>2. Cardinality(made(s)) \in Nat
  BY FS_CardinalityType DEF Numbered
<1>3. made(s)' = made(s) \cup {n}
  <2>1. n \in made(s)'
    BY <1>2 DEF made, Follows
  <2>2. \A c \in Contents \ {n} : c \in made(s)' <=> c \in made(s)
    BY DEF made, Follows
  <2>3. made(s)' \subseteq Contents
    BY DEF made
  <2> QED
    BY <1>1, <2>1, <2>2, <2>3
<1>4. ASSUME NEW u \in Slots \ {s} PROVE made(u)' = made(u)
  <2>1. n \notin made(u)'
    BY DEF made, Follows
  <2>2. \A c \in Contents \ {n} : c \in made(u)' <=> c \in made(u)
    BY DEF made, Follows
  <2>3. made(u)' \subseteq Contents
    BY DEF made
  <2> QED
    BY <1>1, <2>1, <2>2, <2>3
<1>5. IsFiniteSet(made(s) \cup {n}) /\ Cardinality(made(s) \cup {n}) = Cardinality(made(s)) + 1
  BY <1>1, FS_AddElement DEF Numbered
<1> QED
  BY <1>1, <1>2, <1>3, <1>4, <1>5

LEMMA CreateWriteCounts ==
    ASSUME IInv, Order, Counted, NEW q \in Requests, CreateWrite(q)
    PROVE  Counted'
<1>0. SUFFICES ASSUME excuses' = {} PROVE Counted'
  BY DEF Counted
<1>1. PICK s \in Slots, n \in Contents : Follows(s, n)
  BY <1>0, CreateFollows
<1>2. excuses = {}
  BY <1>0 DEF CreateWrite
<1>3. /\ \A u \in Slots : Numbered(u)
      /\ \A c \in Contents : content[c].version > 0 => content[c].slot \in Slots
  BY <1>2 DEF Counted
<1>4. content \in [Contents -> Row] /\ \A v \in Slots : made(v) \subseteq Contents
  BY DEF IInv, TypeOK, made
<1>5. \A c \in Contents : content[c].version \in Nat
  BY <1>4 DEF Row
<1>6. /\ n \notin made(s)
      /\ made(s)' = made(s) \cup {n}
      /\ \A v \in Slots \ {s} : made(v)' = made(v)
      /\ Cardinality(made(s)) \in Nat
      /\ IsFiniteSet(made(s)')
      /\ Cardinality(made(s)') = Cardinality(made(s)) + 1
  BY <1>1, <1>3, MadeAfter
<1>7. ASSUME NEW u \in Slots, u = s PROVE Numbered(u)'
  <2>1. \A c \in made(s) : /\ content'[c].version = content[c].version
                           /\ content[c].version \in 1 .. Cardinality(made(s))
                           /\ ~content'[c].is_current
    BY <1>1, <1>3, <1>4, <1>6 DEF Follows, Numbered
  <2>2. /\ content'[n].version = Cardinality(made(s)) + 1
        /\ content'[n].is_current /\ ~content'[n].deleted
    BY <1>1 DEF Follows
  <2>3. \A c \in made(s)' :
           /\ content'[c].version \in 1 .. Cardinality(made(s)')
           /\ content'[c].is_current <=> content'[c].version = Cardinality(made(s)')
           /\ content'[c].is_current => ~content'[c].deleted
    <3> TAKE c \in made(s)'
    <3>1. CASE c = n
      BY <1>6, <2>2, <3>1
    <3>2. CASE c # n
      <4>1. c \in made(s)
        BY <1>6, <3>2
      <4> QED
        BY <1>6, <2>1, <4>1
    <3> QED
      BY <3>1, <3>2
  <2>4. \A c, d \in made(s)' : content'[c].version = content'[d].version => c = d
    <3>1. \A c, d \in made(s) : content'[c].version = content'[d].version => c = d
      BY <1>3, <2>1 DEF Numbered
    <3>2. \A c \in made(s) : content'[c].version # content'[n].version
      BY <1>6, <2>1, <2>2
    <3> QED
      BY <1>6, <3>1, <3>2
  <2>5. \E c \in made(s)' : content'[c].version = Cardinality(made(s)')
    BY <1>6, <2>2
  <2> QED
    BY <1>6, <1>7, <2>3, <2>4, <2>5 DEF Numbered
<1>8. ASSUME NEW u \in Slots, u # s PROVE Numbered(u)'
  <2>1. made(u)' = made(u)
    BY <1>6, <1>8
  <2>2. \A c \in made(u) : /\ content'[c].version = content[c].version
                           /\ content'[c].deleted = content[c].deleted
                           /\ content'[c].is_current = content[c].is_current
    <3> TAKE c \in made(u)
    <3>1. c \in Contents \ {n} /\ c \notin made(s)
      BY <1>1, <1>8 DEF made, Follows
    <3> QED
      BY <1>1, <3>1 DEF Follows
  <2> QED
    BY <1>3, <2>1, <2>2 DEF Numbered
<1>9. \A c \in Contents : content'[c].version > 0 => content'[c].slot \in Slots
  BY <1>1, <1>3 DEF Follows
<1> QED
  BY <1>7, <1>8, <1>9 DEF Counted

\* delete_content leaves the slots their rows, and the current one undeleted.
LEMMA DeleteCounts ==
    ASSUME IInv, Counted, NEW c \in Contents, delete_content(c)
    PROVE  Counted'
<1>0. SUFFICES ASSUME excuses' = {} PROVE Counted'
  BY DEF Counted
<1>1. /\ content' = [content EXCEPT ![c].deleted = TRUE]
      /\ excuses = {} /\ ~content[c].is_current
  BY <1>0 DEF delete_content
<1>2. content \in [Contents -> Row]
  BY DEF IInv, TypeOK
<1>3. \A d \in Contents : /\ content'[d].version = content[d].version
                          /\ content'[d].slot = content[d].slot
                          /\ content'[d].is_current = content[d].is_current
                          /\ d # c => content'[d].deleted = content[d].deleted
  BY <1>1, <1>2 DEF Row
<1>4. ASSUME NEW s \in Slots PROVE Numbered(s)'
  <2>1. made(s)' = made(s) /\ made(s) \subseteq Contents
    BY <1>3 DEF made
  <2>2. Numbered(s)
    BY <1>1 DEF Counted
  <2> QED
    BY <1>1, <1>3, <2>1, <2>2 DEF Numbered
<1> QED
  BY <1>1, <1>3, <1>4 DEF Counted

LEMMA StepCounted == IInv /\ Order /\ Counted /\ [Next]_vars => Counted'
<1> SUFFICES ASSUME IInv, Order, Counted, [Next]_vars PROVE Counted'
  OBVIOUS
<1>1. ASSUME UNCHANGED <<content, excuses>> PROVE Counted'
  BY <1>1 DEF Counted, Numbered, made
<1>2. CASE \E q \in Requests : CreateRead(q) \/ UpdateRead(q)
  BY <1>1, <1>2 DEF CreateRead, UpdateRead
<1>3. CASE \E q \in Requests : CreateWrite(q)
  BY <1>3, CreateWriteCounts
<1>4. CASE \E q \in Requests : UpdateWrite(q)
  BY <1>4 DEF UpdateWrite, Counted
<1>5. CASE \E c \in Contents : delete_content(c)
  BY <1>5, DeleteCounts
<1>6. CASE delete_campaign \/ UNCHANGED vars
  BY <1>1, <1>6 DEF delete_campaign, vars
<1> QED
  BY <1>2, <1>3, <1>4, <1>5, <1>6 DEF Next

-----------------------------------------------------------------------------
\* An instance has definitions of its own, also of what it extends.
LEMMA SameCount == \A S : Cardinality(S) = History!Cardinality(S)
  BY DEF Cardinality, History!Cardinality

\* An undisturbed create makes the next version of a slot.
LEMMA CreateMakes ==
    ASSUME IInv, Order, Counted, NEW q \in Requests, CreateWrite(q), excuses' = {}
    PROVE  \E s \in Slots, n \in Contents : History!Make(s, n)
<1>1. PICK s \in Slots, n \in Contents : Follows(s, n)
  BY CreateFollows
<1>2. Numbered(s)
  BY DEF CreateWrite, Counted
<1>3. /\ n \notin made(s)
      /\ made(s)' = made(s) \cup {n}
      /\ \A u \in Slots \ {s} : made(u)' = made(u)
  BY <1>1, <1>2, MadeAfter
<1>4. \A u \in Slots : n \notin made(u) /\ made(u) \subseteq Contents
  BY <1>1 DEF made, Follows
<1>5. \A u \in Slots : History!versionsMade(u) = made(u)
  BY DEF History!versionsMade, numbers
<1>6. numbers' = [numbers EXCEPT ![s] =
          [d \in History!versionsMade(s) \cup {n} |->
              IF d = n THEN Cardinality(History!versionsMade(s)) + 1 ELSE numbers[s][d]]]
  <2>1. \A u \in Slots \ {s} : numbers'[u] = numbers[u]
    BY <1>1, <1>3, <1>4 DEF numbers, Follows
  <2>2. \A d \in made(s)' : content'[d].version
            = IF d = n THEN Cardinality(made(s)) + 1 ELSE numbers[s][d]
    BY <1>1, <1>3, <1>4 DEF numbers, Follows
  <2>3. numbers'[s] = [d \in made(s) \cup {n} |->
              IF d = n THEN Cardinality(made(s)) + 1 ELSE numbers[s][d]]
    BY <1>3, <2>2 DEF numbers
  <2>4. numbers' = [numbers EXCEPT ![s] =
            [d \in made(s) \cup {n} |->
                IF d = n THEN Cardinality(made(s)) + 1 ELSE numbers[s][d]]]
    BY <2>1, <2>3 DEF numbers
  <2> QED
    BY <1>5, <2>4
<1>7. shown' = [shown EXCEPT ![s] = {n}]
  <2>1. \A u \in Slots \ {s} : shown'[u] = shown[u]
    <3> SUFFICES ASSUME NEW u \in Slots \ {s}
                 PROVE  shown'[u] = shown[u]
      OBVIOUS
    <3>1. \A c \in made(u) : c \in Contents \ {n} /\ c \notin made(s)
      BY <1>4 DEF made
    <3>2. \A c \in made(u) : content'[c].is_current = content[c].is_current
      BY <1>1, <3>1 DEF Follows
    <3> QED
      BY <1>3, <3>2 DEF shown
  <2>2. shown'[s] = {n}
    <3>1. \A c \in made(s) : ~content'[c].is_current
      BY <1>1, <1>3, <1>4 DEF Follows
    <3>2. content'[n].is_current
      BY <1>1 DEF Follows
    <3> QED
      BY <1>3, <3>1, <3>2 DEF shown
  <2> QED
    BY <2>1, <2>2 DEF shown
<1>8. gone' = gone
  <2>1. n \notin gone /\ n \notin gone'
    BY <1>1 DEF gone, Follows
  <2>2. \A c \in Contents \ {n} : c \in gone' <=> c \in gone
    BY <1>1 DEF gone, Follows
  <2> QED
    BY <2>1, <2>2 DEF gone
<1>9. \A u \in Slots : n \notin History!versionsMade(u)
  BY <1>4, <1>5
<1>10. History!Make(s, n)
  BY <1>6, <1>7, <1>8, <1>9, SameCount DEF History!Make
<1> QED
  BY <1>10

\* An undisturbed deletion takes a version that is not current.
LEMMA DeleteDeletes ==
    ASSUME IInv, Counted, NEW c \in Contents, delete_content(c), excuses' = {}
    PROVE  \E s \in Slots : History!Delete(s, c)
<1>1. /\ content' = [content EXCEPT ![c].deleted = TRUE]
      /\ excuses = {} /\ ~content[c].is_current
      /\ visible(c)
  BY DEF delete_content
<1>2. content \in [Contents -> Row]
  BY DEF IInv, TypeOK
<1>3. \A d \in Contents : /\ content'[d].version = content[d].version
                          /\ content'[d].slot = content[d].slot
                          /\ content'[d].is_current = content[d].is_current
                          /\ content'[d].deleted = (content[d].deleted \/ d = c)
  BY <1>1, <1>2 DEF Row
<1>4. \A s \in Slots : made(s)' = made(s) /\ made(s) \subseteq Contents
  BY <1>3 DEF made
<1>5. PICK s \in Slots : c \in made(s)
  BY <1>1 DEF Counted, made, visible
<1>6. numbers' = numbers /\ shown' = shown
  BY <1>3, <1>4 DEF numbers, shown
<1>7. gone' = gone \cup {c}
  BY <1>1, <1>3 DEF gone, visible
<1>8. c \in made(s) \ (shown[s] \cup gone)
  BY <1>1, <1>5 DEF shown, gone, visible
<1>9. History!versionsMade(s) = made(s)
  BY DEF History!versionsMade, numbers
<1>10. History!Delete(s, c)
  BY <1>6, <1>7, <1>8, <1>9 DEF History!Delete
<1> QED
  BY <1>10

\* Every step is one of the history's, shows nothing of it, or disturbs it.
LEMMA HistoryStep ==
    ASSUME IInv, Order, Counted, [Next]_vars
    PROVE  [History!Step \/ History!Disturb]_(History!historyVars)
<1>1. ASSUME UNCHANGED <<content, excuses>>
      PROVE  UNCHANGED History!historyVars
  BY <1>1 DEF History!historyVars, numbers, shown, gone, made
<1>2. CASE excuses' # {}
  BY <1>2 DEF History!Disturb
<1>3. CASE excuses' = {}
  <2>1. CASE \E q \in Requests : CreateRead(q) \/ UpdateRead(q)
    BY <1>1, <2>1 DEF CreateRead, UpdateRead
  <2>2. ASSUME NEW q \in Requests, CreateWrite(q) PROVE History!Step
    <3>1. excuses = {}
      BY <1>3, <2>2 DEF CreateWrite
    <3> QED
      BY <1>3, <2>2, <3>1, CreateMakes DEF History!Step
  <2>3. CASE \E q \in Requests : UpdateWrite(q)
    BY <1>3, <2>3 DEF UpdateWrite
  <2>4. ASSUME NEW c \in Contents, delete_content(c) PROVE History!Step
    <3>1. excuses = {}
      BY <1>3, <2>4 DEF delete_content
    <3> QED
      BY <1>3, <2>4, <3>1, DeleteDeletes DEF History!Step
  <2>5. CASE delete_campaign \/ UNCHANGED vars
    BY <1>1, <2>5 DEF delete_campaign, vars
  <2> QED
    BY <2>1, <2>2, <2>3, <2>4, <2>5 DEF Next
<1> QED
  BY <1>2, <1>3

LEMMA HistoryStart == Init => History!HistoryInit
<1> SUFFICES ASSUME Init PROVE History!HistoryInit
  OBVIOUS
<1>1. \A c \in Contents : ~ (content[c].version > 0)
  BY DEF Init, NoRow
<1>2. \A s \in Slots : made(s) = {}
  BY <1>1 DEF made
<1>3. /\ numbers = [s \in Slots |-> [c \in {} |-> 0]]
      /\ shown = [s \in Slots |-> {}]
      /\ gone = {}
  BY <1>1, <1>2 DEF numbers, shown, gone
<1>4. excuses = {}
  BY DEF Init
<1> QED
  BY <1>3, <1>4 DEF History!HistoryInit

\* As long as creates do not overlap, no row moves, every create names a language
\* and no current version is deleted, the rows of each slot are a history: the n-th
\* version made has number n, for any rows, slots and requests.
THEOREM UndisturbedVersionsAreHistory == Spec => VersionsAreHistory
<1>1. IInv /\ Order /\ Counted /\ [Next]_vars
        => [History!Step \/ History!Disturb]_(History!historyVars)
  BY HistoryStep
<1> QED
  BY <1>1, InitIInv, StepIInv, InitOrder, StepOrder, InitCounted, StepCounted,
     HistoryStart, PTL DEF Spec, VersionsAreHistory, History!HistorySpec

=============================================================================
