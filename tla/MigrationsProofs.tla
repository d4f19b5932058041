------------------------- MODULE MigrationsProofs -------------------------
(***************************************************************************)
(* Proofs about Migrations, for every set of tables that may hold rows.    *)
(* The run of a program, and of an upgrade or downgrade over revisions, is *)
(* a recursive function: LeastNumber and Induction, proved from the well-  *)
(* founded order of finite sets, say that it exists and what it keeps.     *)
(* First what one step does, then what the program of one revision makes   *)
(* of any database of its revision (UpStep, DownStep), then what an        *)
(* upgrade or downgrade over many does (Upgrades, Downgrades), from which  *)
(* the inductive invariant and the properties follow.                      *)
(***************************************************************************)
EXTENDS Migrations, FiniteSetTheorems, TLAPS

\* A set of numbers that is not empty has a least one.
LEMMA LeastNumber ==
    ASSUME NEW S, S \subseteq Nat, S # {}
    PROVE  \E n \in S : \A m \in S : n <= m
<1> DEFINE T == {0 .. n : n \in S}
<1>1. T \subseteq FiniteSubsetsOf(Nat) /\ T # {}
  <2>1. ASSUME NEW n \in S
        PROVE  0 .. n \in FiniteSubsetsOf(Nat)
    BY FS_Interval DEF FiniteSubsetsOf
  <2> QED
    BY <2>1
<1>2. PICK x \in T : \A y \in T : ~ (<<y, x>> \in StrictSubsetOrdering(Nat))
  <2> HIDE DEF T
  <2> QED
    BY <1>1, FS_StrictSubsetOrderingWellFounded, WFMin
<1>3. PICK n \in S : x = 0 .. n
  OBVIOUS
<1>4. ASSUME NEW m \in S, m < n
      PROVE  FALSE
  <2>1. 0 .. m \in T /\ 0 .. m \subseteq 0 .. n /\ 0 .. m # 0 .. n
    BY <1>4
  <2> QED
    BY <1>1, <1>2, <1>3, <2>1 DEF StrictSubsetOrdering, FiniteSubsetsOf
<1> QED
  BY <1>4

\* Induction along the numbers from a to b, for the recursive functions that run
\* the steps of alembic's programs: it has no operator for a parameter, so that it
\* can be cited.
LEMMA Induction ==
    ASSUME NEW a \in Nat, NEW b \in Nat, a <= b,
           NEW S, a \in S,
           \A n \in a + 1 .. b : n - 1 \in S => n \in S
    PROVE  a .. b \subseteq S
<1> DEFINE Bad == (a .. b) \ S
<1> SUFFICES ASSUME Bad # {}
             PROVE  FALSE
  OBVIOUS
<1>1. PICK n \in Bad : \A m \in Bad : n <= m
  <2> HIDE DEF Bad
  <2>1. Bad \subseteq Nat
    BY DEF Bad
  <2> QED
    BY <2>1, LeastNumber
<1>2. n \in a + 1 .. b /\ n - 1 \in a .. b /\ n - 1 \notin Bad
  BY <1>1
<1> QED
  BY <1>2

\* The databases f[0 .. k] that the steps make of db, as Run defines them.
RunTrace(f, k, db, steps) ==
    f = [n \in 0 .. k |->
            IF n = 0 THEN db
            ELSE IF f[n - 1].ok THEN Stepped(f[n - 1], steps[n])
            ELSE f[n - 1]]

\* The recursive function of Run exists, so that Run is its last value.
LEMMA RunHasTrace ==
    ASSUME NEW db, NEW steps, Len(steps) \in Nat
    PROVE  \E f : /\ RunTrace(f, Len(steps), db, steps)
                  /\ Run(db, steps) = f[Len(steps)]
<1> DEFINE S == {k \in 0 .. Len(steps) : \E f : RunTrace(f, k, db, steps)}
<1>1. 0 \in S
  <2> DEFINE g == [n \in 0 .. 0 |-> db]
  <2>1. RunTrace(g, 0, db, steps)
    BY DEF RunTrace
  <2> QED
    BY <2>1
<1>2. ASSUME NEW k \in 1 .. Len(steps), k - 1 \in S
      PROVE  k \in S
  <2>1. PICK f : RunTrace(f, k - 1, db, steps)
    BY <1>2
  <2> DEFINE g == [n \in 0 .. k |->
                      IF n = k THEN IF f[k - 1].ok THEN Stepped(f[k - 1], steps[k])
                                    ELSE f[k - 1]
                      ELSE f[n]]
  <2>2. RunTrace(g, k, db, steps)
    BY <2>1 DEF RunTrace
  <2> HIDE DEF g
  <2> QED
    BY <2>2
<1>3. Len(steps) \in S
  <2>1. PICK b \in Nat : b = Len(steps)
    OBVIOUS
  <2> HIDE DEF S
  <2>2. 0 \in Nat /\ 0 <= b /\ \A k \in 0 + 1 .. b : k - 1 \in S => k \in S
    BY <1>2, <2>1
  <2>3. 0 .. b \subseteq S
    BY <1>1, <2>2, Induction, Zenon
  <2> QED
    BY <2>1, <2>3
<1> QED
  BY <1>3 DEF RunTrace, Run

-----------------------------------------------------------------------------
\* The tables in the order the upgrades of alembic/versions create them, and
\* what they are created with.
Created ==
    <<"plans", "users", "user_preferences", "workspaces", "permissions",
      "roles", "role_permissions", "workspace_members",
      "workspace_invites", "api_keys", "audit_logs", "notifications",
      "assets", "brand_kits", "campaigns", "campaign_assets",
      "campaign_content", "campaign_schedules", "campaign_content_assets",
      "social_accounts", "publish_history", "ai_usage",
      "analytics_snapshots", "campaign_analytics",
      "notification_preferences", "notification_templates",
      "notification_deliveries", "job_executions", "feature_flags",
      "runtime_configurations", "system_announcements",
      "workspace_features", "integration_connections">>

Made ==
    <<plans, users, user_preferences, workspaces, permissions, roles,
      role_permissions, workspace_members, workspace_invites, api_keys,
      audit_logs, notifications, assets, brand_kits, campaigns,
      campaign_assets, campaign_content, campaign_schedules,
      campaign_content_assets, social_accounts, publish_history, ai_usage,
      analytics_snapshots, campaign_analytics, notification_preferences,
      notification_templates, notification_deliveries, job_executions,
      feature_flags, runtime_configurations, system_announcements,
      workspace_features, integration_connections>>

\* How many of the tables there are at a revision.
Count(r) == IF r = 0 THEN 0
            ELSE <<4, 7, 9, 9, 12, 19, 21, 24, 27, 28, 28, 32, 33, 33, 33>>[r]

\* The names of the first j.
Known(j) == {Created[i] : i \in 1 .. j}

\* No table is created twice: the names of Created differ.
LEMMA CreatedOnce ==
    \A i, j \in 1 .. 33 : Created[i] = Created[j] => i = j
<1> DEFINE rank == [plans |-> 1, 
                    users |-> 2, 
                    user_preferences |-> 3, 
                    workspaces |-> 4, 
                    permissions |-> 5, 
                    roles |-> 6, 
                    role_permissions |-> 7, 
                    workspace_members |-> 8, 
                    workspace_invites |-> 9, 
                    api_keys |-> 10, 
                    audit_logs |-> 11, 
                    notifications |-> 12, 
                    assets |-> 13, 
                    brand_kits |-> 14, 
                    campaigns |-> 15, 
                    campaign_assets |-> 16, 
                    campaign_content |-> 17, 
                    campaign_schedules |-> 18, 
                    campaign_content_assets |-> 19, 
                    social_accounts |-> 20, 
                    publish_history |-> 21, 
                    ai_usage |-> 22, 
                    analytics_snapshots |-> 23, 
                    campaign_analytics |-> 24, 
                    notification_preferences |-> 25, 
                    notification_templates |-> 26, 
                    notification_deliveries |-> 27, 
                    job_executions |-> 28, 
                    feature_flags |-> 29, 
                    runtime_configurations |-> 30, 
                    system_announcements |-> 31, 
                    workspace_features |-> 32, 
                    integration_connections |-> 33]
<1>1. \A i \in 1 .. 33 : rank[Created[i]] = i
  BY DEF Created
<1> QED
  BY <1>1

-----------------------------------------------------------------------------
\* A record with the four fields of a database.
IsDatabase(d) ==
    /\ d = [tables |-> d.tables, types |-> d.types, rows |-> d.rows, ok |-> d.ok]
    /\ d.ok \in BOOLEAN

\* What op.create_table does: it fails exactly if CanCreate does not hold, adds
\* the table and its types, and leaves rows and other tables alone.
LEMMA CreateEffect ==
    ASSUME NEW d, IsDatabase(d), d.ok, NEW t, NEW def,
           NEW e, e = Stepped(d, create(t, def))
    PROVE  /\ IsDatabase(e)
           /\ e.ok <=> CanCreate(d, create(t, def))
           /\ e.rows = d.rows
           /\ e.ok => /\ e.types = d.types \cup def.types
                      /\ DOMAIN e.tables = DOMAIN d.tables \cup {t}
                      /\ e.tables[t] = def
                      /\ \A x \in DOMAIN d.tables \ {t} : e.tables[x] = d.tables[x]
  BY DEF IsDatabase, Stepped, create

\* What op.drop_table does: it fails exactly if CanDrop does not hold, takes the
\* table and its rows away, and leaves types and other tables alone.
LEMMA DropEffect ==
    ASSUME NEW d, IsDatabase(d), d.ok, NEW t, NEW index,
           NEW e, e = Stepped(d, drop(t, index))
    PROVE  /\ IsDatabase(e)
           /\ e.ok <=> CanDrop(d, drop(t, index))
           /\ e.types = d.types
           /\ e.ok => /\ e.rows = d.rows \ {t}
                      /\ DOMAIN e.tables = DOMAIN d.tables \ {t}
                      /\ \A x \in DOMAIN e.tables : e.tables[x] = d.tables[x]
  BY DEF IsDatabase, Stepped, drop

\* What the steps on one table do: they fail exactly if CanAlter does not hold,
\* and change that table alone, no types and no rows.
LEMMA AlterEffect ==
    ASSUME NEW d, IsDatabase(d), d.ok, NEW t, NEW change,
           NEW e, e = Stepped(d, alter(t, change))
    PROVE  /\ IsDatabase(e)
           /\ e.ok <=> CanAlter(d, alter(t, change))
           /\ e.types = d.types
           /\ e.rows = d.rows
           /\ e.ok => /\ DOMAIN e.tables = DOMAIN d.tables
                      /\ e.tables[t] = Altered(d.tables[t], change)
                      /\ \A x \in DOMAIN d.tables \ {t} : e.tables[x] = d.tables[x]
<1>1. ASSUME CanAlter(d, alter(t, change))
      PROVE  e = [d EXCEPT !.tables[t] = Altered(d.tables[t], change)]
  BY <1>1 DEF Stepped, alter
<1>2. ASSUME ~ CanAlter(d, alter(t, change))
      PROVE  e = [d EXCEPT !.ok = FALSE]
  BY <1>2 DEF Stepped, alter
<1>3. CanAlter(d, alter(t, change)) => t \in DOMAIN d.tables
  BY DEF CanAlter, alter
<1>4. CASE CanAlter(d, alter(t, change))
  <2>1. /\ e.tables = [d.tables EXCEPT ![t] = Altered(d.tables[t], change)]
        /\ e.types = d.types /\ e.rows = d.rows /\ e.ok = d.ok
        /\ e = [tables |-> e.tables, types |-> e.types, rows |-> e.rows, ok |-> e.ok]
    BY <1>1, <1>4 DEF IsDatabase
  <2> QED
    BY <1>3, <1>4, <2>1 DEF IsDatabase
<1>5. CASE ~ CanAlter(d, alter(t, change))
  BY <1>2, <1>5 DEF IsDatabase
<1> QED
  BY <1>4, <1>5

\* f[n] is what the n-th step makes of f[n - 1], for the steps after a up to b.
Runs(f, a, b, steps) ==
    \A n \in a + 1 .. b :
        f[n] = IF f[n - 1].ok THEN Stepped(f[n - 1], steps[n]) ELSE f[n - 1]

\* Run goes from db to its result one step at a time.
LEMMA RunSteps ==
    ASSUME NEW db, NEW steps, Len(steps) \in Nat
    PROVE  \E f : /\ f[0] = db
                  /\ Runs(f, 0, Len(steps), steps)
                  /\ Run(db, steps) = f[Len(steps)]
<1>1. PICK f : /\ RunTrace(f, Len(steps), db, steps)
               /\ Run(db, steps) = f[Len(steps)]
  BY RunHasTrace
<1>2. f[0] = db /\ Runs(f, 0, Len(steps), steps)
  BY <1>1 DEF RunTrace, Runs
<1> QED
  BY <1>1, <1>2

\* A part of a run is a run.
LEMMA RunsPart ==
    ASSUME NEW f, NEW a \in Nat, NEW b \in Nat, NEW c \in Nat, NEW d \in Nat,
           a <= c, c <= d, d <= b, NEW steps, Runs(f, a, b, steps)
    PROVE  Runs(f, c, d, steps)
  BY DEF Runs

\* After a step that failed nothing is run: the transaction of env.py is lost.
LEMMA FailureStays ==
    ASSUME NEW f, NEW a \in Nat, NEW b \in Nat, a <= b, NEW steps,
           Runs(f, a, b, steps), f[a].ok = FALSE
    PROVE  f[b] = f[a]
<1> DEFINE S == {n \in a .. b : f[n] = f[a]}
<1>1. a .. b \subseteq S
  <2>1. ASSUME NEW n \in a + 1 .. b, n - 1 \in S
        PROVE  n \in S
    BY <2>1 DEF Runs
  <2> HIDE DEF S
  <2>2. a \in S
    BY DEF S
  <2> QED
    BY <2>1, <2>2, Induction
<1> QED
  BY <1>1

\* The foreign keys written To(t, columns) reference t.
LEMMA Referenced == \A t, columns : \A r \in To(t, columns) : r[2] = t
  BY DEF To

\* Every revision file creates tables before those that reference them, and no
\* two tables create the same enum type.
LEMMA TablesMade ==
    /\ \A i \in 1 .. 33 : \A r \in Made[i].refs : r[2] \in Known(i)
    /\ \A i, j \in 1 .. 33 : i # j => Made[i].types \cap Made[j].types = {}
<1>1. /\ Made[1].refs = {}
      /\ Made[1].types = {}
  BY DEF Made, plans
<1>2. /\ Made[2].refs = {}
      /\ Made[2].types = {}
  BY DEF Made, users
<1>3. /\ \A r \in Made[3].refs : r[2] \in {Created[2]}
      /\ Made[3].types = {}
  BY Referenced DEF Made, Created, user_preferences, AuthorRefs
<1>4. /\ \A r \in Made[4].refs : r[2] \in {Created[1], Created[2]}
      /\ Made[4].types = {"workspacestatus"}
  BY Referenced DEF Made, Created, workspaces, AuthorRefs
<1>5. /\ Made[5].refs = {}
      /\ Made[5].types = {}
  BY DEF Made, permissions
<1>6. /\ \A r \in Made[6].refs : r[2] \in {Created[4]}
      /\ Made[6].types = {"roletype"}
  BY Referenced DEF Made, Created, roles, AuthorRefs
<1>7. /\ \A r \in Made[7].refs : r[2] \in {Created[5], Created[6]}
      /\ Made[7].types = {}
  BY Referenced DEF Made, Created, role_permissions, AuthorRefs
<1>8. /\ \A r \in Made[8].refs : r[2] \in {Created[2], Created[4], Created[6]}
      /\ Made[8].types = {"memberstatus"}
  BY Referenced DEF Made, Created, workspace_members, AuthorRefs
<1>9. /\ \A r \in Made[9].refs : r[2] \in {Created[2], Created[4], Created[6]}
      /\ Made[9].types = {"invitestatus"}
  BY Referenced DEF Made, Created, workspace_invites, AuthorRefs
<1>10. /\ \A r \in Made[10].refs : r[2] \in {Created[4]}
       /\ Made[10].types = {"apiprovider"}
  BY Referenced DEF Made, Created, api_keys, AuthorRefs
<1>11. /\ \A r \in Made[11].refs : r[2] \in {Created[2], Created[4]}
       /\ Made[11].types = {}
  BY Referenced DEF Made, Created, audit_logs, AuthorRefs
<1>12. /\ \A r \in Made[12].refs : r[2] \in {Created[2], Created[4]}
       /\ Made[12].types = {"notificationtype", "notificationpriority"}
  BY Referenced DEF Made, Created, notifications, AuthorRefs
<1>13. /\ \A r \in Made[13].refs : r[2] \in {Created[2], Created[4]}
       /\ Made[13].types = {}
  BY Referenced DEF Made, Created, assets, AuthorRefs
<1>14. /\ \A r \in Made[14].refs : r[2] \in {Created[2], Created[4]}
       /\ Made[14].types = {}
  BY Referenced DEF Made, Created, brand_kits, AuthorRefs
<1>15. /\ \A r \in Made[15].refs : r[2] \in {Created[2], Created[4], Created[14]}
       /\ Made[15].types = {}
  BY Referenced DEF Made, Created, campaigns, AuthorRefs
<1>16. /\ \A r \in Made[16].refs : r[2] \in {Created[13], Created[15]}
       /\ Made[16].types = {}
  BY Referenced DEF Made, Created, campaign_assets, AuthorRefs
<1>17. /\ \A r \in Made[17].refs : r[2] \in {Created[2], Created[4], Created[15], Created[17]}
       /\ Made[17].types = {}
  BY Referenced DEF Made, Created, campaign_content, AuthorRefs
<1>18. /\ \A r \in Made[18].refs : r[2] \in {Created[2], Created[4], Created[15]}
       /\ Made[18].types = {}
  BY Referenced DEF Made, Created, campaign_schedules, AuthorRefs
<1>19. /\ \A r \in Made[19].refs : r[2] \in {Created[13], Created[17]}
       /\ Made[19].types = {}
  BY Referenced DEF Made, Created, campaign_content_assets, AuthorRefs
<1>20. /\ \A r \in Made[20].refs : r[2] \in {Created[2], Created[4]}
       /\ Made[20].types = {}
  BY Referenced DEF Made, Created, social_accounts, AuthorRefs
<1>21. /\ \A r \in Made[21].refs : r[2] \in {Created[2], Created[4], Created[15], Created[17], Created[20]}
       /\ Made[21].types = {}
  BY Referenced DEF Made, Created, publish_history, AuthorRefs
<1>22. /\ \A r \in Made[22].refs : r[2] \in {Created[4]}
       /\ Made[22].types = {}
  BY Referenced DEF Made, Created, ai_usage, AuthorRefs
<1>23. /\ \A r \in Made[23].refs : r[2] \in {Created[4]}
       /\ Made[23].types = {}
  BY Referenced DEF Made, Created, analytics_snapshots, AuthorRefs
<1>24. /\ \A r \in Made[24].refs : r[2] \in {Created[4], Created[15]}
       /\ Made[24].types = {}
  BY Referenced DEF Made, Created, campaign_analytics, AuthorRefs
<1>25. /\ \A r \in Made[25].refs : r[2] \in {Created[2], Created[4]}
       /\ Made[25].types = {}
  BY Referenced DEF Made, Created, notification_preferences, AuthorRefs
<1>26. /\ \A r \in Made[26].refs : r[2] \in {Created[4]}
       /\ Made[26].types = {}
  BY Referenced DEF Made, Created, notification_templates, AuthorRefs
<1>27. /\ \A r \in Made[27].refs : r[2] \in {Created[4], Created[12]}
       /\ Made[27].types = {}
  BY Referenced DEF Made, Created, notification_deliveries, AuthorRefs
<1>28. /\ Made[28].refs = {}
       /\ Made[28].types = {"jobstatus", "jobpriority"}
  BY DEF Made, job_executions
<1>29. /\ Made[29].refs = {}
       /\ Made[29].types = {}
  BY DEF Made, feature_flags
<1>30. /\ Made[30].refs = {}
       /\ Made[30].types = {"datatype"}
  BY DEF Made, runtime_configurations
<1>31. /\ Made[31].refs = {}
       /\ Made[31].types = {}
  BY DEF Made, system_announcements
<1>32. /\ \A r \in Made[32].refs : r[2] \in {Created[4]}
       /\ Made[32].types = {}
  BY Referenced DEF Made, Created, workspace_features, AuthorRefs
<1>33. /\ Made[33].refs = {}
       /\ Made[33].types = {"connectionstatus"}
  BY DEF Made, integration_connections
<1>34. \A i \in 1 .. 33 : \A r \in Made[i].refs : r[2] \in Known(i)
  BY <1>1, <1>2, <1>3, <1>4, <1>5, <1>6, <1>7, <1>8, <1>9, <1>10, <1>11,
     <1>12, <1>13, <1>14, <1>15, <1>16, <1>17, <1>18, <1>19, <1>20, <1>21,
     <1>22, <1>23, <1>24, <1>25, <1>26, <1>27, <1>28, <1>29, <1>30, <1>31,
     <1>32, <1>33 DEF Known
<1> DEFINE owner == [workspacestatus |-> 4, roletype |-> 6, memberstatus |-> 8,
                    invitestatus |-> 9, apiprovider |-> 10,
                    notificationtype |-> 12, notificationpriority |-> 12,
                    jobstatus |-> 28, jobpriority |-> 28, datatype |-> 30,
                    connectionstatus |-> 33]
<1>35. \A i \in 1 .. 33 : \A x \in Made[i].types : owner[x] = i
  BY <1>1, <1>2, <1>3, <1>4, <1>5, <1>6, <1>7, <1>8, <1>9, <1>10, <1>11,
     <1>12, <1>13, <1>14, <1>15, <1>16, <1>17, <1>18, <1>19, <1>20, <1>21,
     <1>22, <1>23, <1>24, <1>25, <1>26, <1>27, <1>28, <1>29, <1>30, <1>31,
     <1>32, <1>33
<1>36. \A i, j \in 1 .. 33 : i # j => Made[i].types \cap Made[j].types = {}
  <2> HIDE DEF owner
  <2> QED
    BY <1>35
<1> QED
  BY <1>34, <1>36

-----------------------------------------------------------------------------
\* The enum types created with the tables after the i-th up to the j-th.
NewTypes(i, j) == UNION {Made[m].types : m \in i + 1 .. j}

\* A database e after the first n tables after the j-th have been created in d.
Built(d, e, j, n) ==
    /\ IsDatabase(e)
    /\ e.rows = d.rows
    /\ e.ok <=> d.types \cap NewTypes(j, j + n) = {}
    /\ e.ok =>
          /\ e.types = d.types \cup NewTypes(j, j + n)
          /\ DOMAIN e.tables = Known(j + n)
          /\ \A i \in 1 .. j : e.tables[Created[i]] = d.tables[Created[i]]
          /\ \A i \in j + 1 .. j + n : e.tables[Created[i]] = Made[i]

\* Creating tables in the order of Created can fail only on an enum type that is
\* there already, whatever rows there are.
LEMMA Creations ==
    ASSUME NEW d, IsDatabase(d), d.ok, NEW f, f[0] = d, NEW steps,
           NEW j \in Nat, NEW k \in Nat, j + k <= 33,
           Runs(f, 0, k, steps), DOMAIN d.tables = Known(j),
           \A i \in 1 .. k : steps[i] = create(Created[j + i], Made[j + i])
    PROVE  \A n \in 0 .. k : Built(d, f[n], j, n)
<1> DEFINE S == {n \in 0 .. k : Built(d, f[n], j, n)}
<1>1. 0 \in S
  BY DEF NewTypes, Built
<1>2. ASSUME NEW n \in 1 .. k, n - 1 \in S
      PROVE  n \in S
  <2> DEFINE t == Created[j + n]
             def == Made[j + n]
  <2>1. /\ IsDatabase(f[n - 1])
        /\ f[n - 1].rows = d.rows
        /\ f[n - 1].ok <=> d.types \cap NewTypes(j, j + n - 1) = {}
        /\ f[n - 1].ok =>
              /\ f[n - 1].types = d.types \cup NewTypes(j, j + n - 1)
              /\ DOMAIN f[n - 1].tables = Known(j + n - 1)
              /\ \A i \in 1 .. j : f[n - 1].tables[Created[i]] = d.tables[Created[i]]
              /\ \A i \in j + 1 .. j + n - 1 : f[n - 1].tables[Created[i]] = Made[i]
    <3>1. j + (n - 1) = j + n - 1
      OBVIOUS
    <3> QED
      BY <1>2, <3>1 DEF Built
  <2>2. NewTypes(j, j + n) = NewTypes(j, j + n - 1) \cup def.types
    BY DEF NewTypes
  <2>3. Known(j + n) = Known(j + n - 1) \cup {t}
    BY DEF Known
  <2>4. t \notin Known(j + n - 1)
    BY CreatedOnce DEF Known
  <2>5. CASE ~ f[n - 1].ok
    <3>1. f[n] = f[n - 1]
      BY <2>5 DEF Runs
    <3> QED
      BY <2>1, <2>2, <2>5, <3>1 DEF Built
  <2>6. CASE f[n - 1].ok
    <3>1. f[n] = Stepped(f[n - 1], create(t, def))
      BY <2>6 DEF Runs
    <3>2. def.types \cap NewTypes(j, j + n - 1) = {}
      <4>1. j + n \in 1 .. 33 /\ \A m \in j + 1 .. j + n - 1 : m \in 1 .. 33 /\ m # j + n
        OBVIOUS
      <4>2. \A m \in j + 1 .. j + n - 1 : def.types \cap Made[m].types = {}
        BY <4>1, TablesMade
      <4> QED
        BY <4>2 DEF NewTypes
    <3>3. CanCreate(f[n - 1], create(t, def)) <=> def.types \cap f[n - 1].types = {}
      <4>1. \A r \in def.refs : r[2] \in Known(j + n)
        <5>1. j + n \in 1 .. 33
          OBVIOUS
        <5> QED
          BY <5>1, TablesMade
      <4> QED
        BY <2>1, <2>3, <2>4, <2>6, <4>1 DEF CanCreate, create
    <3> HIDE DEF t, def
    <3>4. /\ IsDatabase(f[n])
          /\ f[n].ok <=> CanCreate(f[n - 1], create(t, def))
          /\ f[n].rows = f[n - 1].rows
          /\ f[n].ok =>
                /\ f[n].types = f[n - 1].types \cup def.types
                /\ DOMAIN f[n].tables = DOMAIN f[n - 1].tables \cup {t}
                /\ f[n].tables[t] = def
                /\ \A x \in DOMAIN f[n - 1].tables \ {t} :
                      f[n].tables[x] = f[n - 1].tables[x]
      BY <2>1, <2>6, <3>1, CreateEffect
    <3>5. f[n].ok <=> d.types \cap NewTypes(j, j + n) = {}
      BY <2>1, <2>2, <2>6, <3>2, <3>3, <3>4
    <3>6. ASSUME f[n].ok
          PROVE  /\ f[n].types = d.types \cup NewTypes(j, j + n)
                 /\ DOMAIN f[n].tables = Known(j + n)
                 /\ \A i \in 1 .. j : f[n].tables[Created[i]] = d.tables[Created[i]]
                 /\ \A i \in j + 1 .. j + n : f[n].tables[Created[i]] = Made[i]
      <4>1. f[n].types = d.types \cup NewTypes(j, j + n) /\ DOMAIN f[n].tables = Known(j + n)
        BY <2>1, <2>2, <2>3, <2>6, <3>4, <3>6
      <4>2. \A i \in 1 .. j + n - 1 :
               /\ Created[i] \in Known(j + n - 1)
               /\ f[n].tables[Created[i]] = f[n - 1].tables[Created[i]]
        BY <2>1, <2>4, <2>6, <3>4, <3>6 DEF Known
      <4>3. f[n].tables[Created[j + n]] = Made[j + n]
        BY <3>4, <3>6 DEF t, def
      <4> QED
        BY <2>1, <2>6, <4>1, <4>2, <4>3
    <3> QED
      BY <2>1, <3>4, <3>5, <3>6 DEF Built
  <2> QED
    BY <2>5, <2>6
<1>3. 0 .. k \subseteq S
  <2> HIDE DEF S
  <2>1. \A n \in 0 + 1 .. k : n - 1 \in S => n \in S
    BY <1>2
  <2>2. 0 \in Nat /\ 0 <= k
    OBVIOUS
  <2> QED
    BY <1>1, <2>1, <2>2, Induction, Zenon
<1> QED
  BY <1>3

\* A database e after the last n of the first j tables of d have been dropped.
Dropped(d, e, j, n) ==
    /\ IsDatabase(e)
    /\ e.ok
    /\ e.types = d.types
    /\ e.rows = d.rows \ {Created[i] : i \in j + 1 - n .. j}
    /\ DOMAIN e.tables = Known(j - n)
    /\ \A i \in 1 .. j - n : e.tables[Created[i]] = d.tables[Created[i]]

\* Dropping tables in the reverse order never fails: none that is left references
\* one that is dropped, and each has the indexes dropped with it.
LEMMA Drops ==
    ASSUME NEW f, NEW a \in Nat, NEW k \in Nat, NEW j \in Nat, k <= j, j <= 33,
           NEW steps, Runs(f, a, a + k, steps),
           IsDatabase(f[a]), f[a].ok, DOMAIN f[a].tables = Known(j),
           \A i \in 1 .. j : \A r \in f[a].tables[Created[i]].refs :
              r[2] \in Known(i) \cup Known(j - k),
           \A i \in 1 .. k :
              \E index : /\ steps[a + i] = drop(Created[j + 1 - i], index)
                         /\ index \subseteq f[a].tables[Created[j + 1 - i]].index
    PROVE  \A n \in 0 .. k : Dropped(f[a], f[a + n], j, n)
<1> DEFINE S == {n \in 0 .. k : Dropped(f[a], f[a + n], j, n)}
<1>1. 0 \in S
  BY DEF Dropped
<1>2. ASSUME NEW n \in 1 .. k, n - 1 \in S
      PROVE  n \in S
  <2>0. PICK m \in 1 .. 33 : m = j + 1 - n
    <3>1. j + 1 - n \in 1 .. 33
      OBVIOUS
    <3> QED
      BY <3>1
  <2> DEFINE t == Created[m]
             e == f[a + n - 1]
  <2>1. /\ m <= j
        /\ IsDatabase(e)
        /\ e.ok
        /\ e.types = f[a].types
        /\ e.rows = f[a].rows \ {Created[i] : i \in m + 1 .. j}
        /\ DOMAIN e.tables = Known(m)
        /\ \A i \in 1 .. m : e.tables[Created[i]] = f[a].tables[Created[i]]
    <3>1. a + (n - 1) = a + n - 1 /\ j - (n - 1) = m /\ j + 1 - (n - 1) = m + 1
      BY <2>0
    <3> QED
      BY <1>2, <2>0, <3>1 DEF Dropped
  <2>2. PICK index : steps[a + n] = drop(t, index) /\ index \subseteq f[a].tables[t].index
    BY <2>0
  <2>3. f[a + n] = Stepped(e, drop(t, index))
    <3>1. a + n \in a + 1 .. a + k
      OBVIOUS
    <3> QED
      BY <2>1, <2>2, <3>1 DEF Runs
  <2>4. Known(m) = Known(m - 1) \cup {t} /\ t \notin Known(m - 1)
    <3>1. Known(m) = Known(m - 1) \cup {t}
      BY DEF Known
    <3>2. ASSUME NEW i \in 1 .. m - 1
          PROVE  Created[i] # t
      <4>1. i \in 1 .. 33 /\ i # m
        BY <2>0
      <4> QED
        BY <4>1, CreatedOnce
    <3> QED
      BY <3>1, <3>2 DEF Known
  <2>5. CanDrop(e, drop(t, index))
    <3>1. DOMAIN e.tables = Known(m) /\ t \in Known(m)
          /\ e.tables[t] = f[a].tables[t]
      BY <2>1, <2>4
    <3>2. ASSUME NEW s \in References(e, t)
          PROVE  s = t
      <4>1. PICK i \in 1 .. m : s = Created[i]
        BY <3>1 DEF References, Known
      <4>2. \E r \in f[a].tables[Created[i]].refs : r[2] = t
        BY <2>1, <4>1 DEF References
      <4>3. t \in Known(i)
        <5>1. i \in 1 .. j /\ t \in Known(i) \cup Known(j - k)
          BY <2>1, <4>2
        <5>2. t \notin Known(j - k)
          <6>1. j - k \in Nat /\ j - k <= m - 1
            BY <2>0
          <6> QED
            BY <2>4, <6>1 DEF Known
        <5> QED
          BY <5>1, <5>2
      <4>4. i = m
        <5>1. PICK h \in 1 .. i : Created[h] = Created[m]
          BY <4>3 DEF Known
        <5>2. h = m /\ i <= m
          BY <5>1, CreatedOnce
        <5> QED
          BY <5>1, <5>2
      <4> QED
        BY <4>1, <4>4
    <3> QED
      BY <2>2, <3>1, <3>2 DEF CanDrop, drop
  <2>6. j - n = m - 1
    BY <2>0
  <2>7. {Created[i] : i \in m .. j} = {Created[i] : i \in m + 1 .. j} \cup {t}
    BY <2>1
  <2>8. /\ IsDatabase(f[a + n])
        /\ f[a + n].ok
        /\ f[a + n].types = e.types
        /\ f[a + n].rows = e.rows \ {t}
        /\ DOMAIN f[a + n].tables = DOMAIN e.tables \ {t}
        /\ \A x \in DOMAIN f[a + n].tables : f[a + n].tables[x] = e.tables[x]
    <3> HIDE DEF t, e
    <3>1. IsDatabase(e) /\ e.ok
      BY <2>1 DEF e
    <3> QED
      BY <2>3, <2>5, <3>1, DropEffect
  <2>9. Dropped(f[a], f[a + n], j, n)
    <3>1. DOMAIN f[a + n].tables = Known(j - n)
      BY <2>1, <2>4, <2>6, <2>8
    <3>2. f[a + n].rows = f[a].rows \ {Created[i] : i \in j + 1 - n .. j}
      BY <2>0, <2>1, <2>7, <2>8
    <3>3. \A i \in 1 .. j - n : f[a + n].tables[Created[i]] = f[a].tables[Created[i]]
      BY <2>1, <2>6, <2>8, <3>1 DEF Known
    <3> QED
      BY <2>1, <2>8, <3>1, <3>2, <3>3 DEF Dropped
  <2> QED
    BY <2>9
<1>3. 0 .. k \subseteq S
  <2> HIDE DEF S
  <2>1. \A n \in 0 + 1 .. k : n - 1 \in S => n \in S
    BY <1>2
  <2>2. 0 \in Nat /\ 0 <= k
    OBVIOUS
  <2> QED
    BY <1>1, <2>1, <2>2, Induction, Zenon
<1> QED
  BY <1>3

-----------------------------------------------------------------------------
\* How many steps of a revision change a table that is there already.
Alters(r) == IF r = 15 THEN 9 ELSE IF r \in {1, 4, 6, 11} THEN 1 ELSE 0

\* Count, revision by revision.
LEMMA Counts ==
    /\ Count(0) = 0 /\ Count(1) = 4 /\ Count(2) = 7 /\ Count(3) = 9
    /\ Count(4) = 9 /\ Count(5) = 12 /\ Count(6) = 19 /\ Count(7) = 21
    /\ Count(8) = 24 /\ Count(9) = 27 /\ Count(10) = 28 /\ Count(11) = 28
    /\ Count(12) = 32 /\ Count(13) = 33 /\ Count(14) = 33 /\ Count(15) = 33
  BY DEF Count

\* A program that creates the k tables after the j-th, in order, and then makes
\* that many changes.
Builds(steps, j, k, alters) ==
    /\ Len(steps) = k + alters
    /\ \A i \in 1 .. k : steps[i] = create(Created[j + i], Made[j + i])

\* A program that makes that many changes and then drops the last k of j tables,
\* last first, with indexes they have.
Removes(steps, j, k, alters) ==
    /\ Len(steps) = k + alters
    /\ \A i \in 1 .. k :
          \E index : /\ steps[alters + i] = drop(Created[j + 1 - i], index)
                     /\ index \subseteq Made[j + 1 - i].index

\* Every upgrade() of alembic/versions creates its tables in the order of Created
\* before it changes others.
LEMMA UpSteps ==
    \A r \in 1 .. 15 :
       Builds(Revisions[r].up, Count(r - 1), Count(r) - Count(r - 1), Alters(r))
<1>1. Builds(Revisions[1].up, 0, 4, 1)
  BY DEF Builds, Revisions, upgrade_2b, Created, Made
<1>2. Builds(Revisions[2].up, 4, 3, 0)
  BY DEF Builds, Revisions, upgrade_2c, Created, Made
<1>3. Builds(Revisions[3].up, 7, 2, 0)
  BY DEF Builds, Revisions, upgrade_2d, Created, Made
<1>4. Builds(Revisions[4].up, 9, 0, 1)
  BY DEF Builds, Revisions, upgrade_2e
<1>5. Builds(Revisions[5].up, 9, 3, 0)
  BY DEF Builds, Revisions, upgrade_2f, Created, Made
<1>6. Builds(Revisions[6].up, 12, 7, 1)
  BY DEF Builds, Revisions, upgrade_6d96, Created, Made
<1>7. Builds(Revisions[7].up, 19, 2, 0)
  BY DEF Builds, Revisions, upgrade_7cd2, Created, Made
<1>8. Builds(Revisions[8].up, 21, 3, 0)
  BY DEF Builds, Revisions, upgrade_e0e7, Created, Made
<1>9. Builds(Revisions[9].up, 24, 3, 0)
  BY DEF Builds, Revisions, upgrade_a7be, Created, Made
<1>10. Builds(Revisions[10].up, 27, 1, 0)
  BY DEF Builds, Revisions, upgrade_83b5, Created, Made
<1>11. Builds(Revisions[11].up, 28, 0, 1)
  BY DEF Builds, Revisions, upgrade_8c6a
<1>12. Builds(Revisions[12].up, 28, 4, 0)
  BY DEF Builds, Revisions, upgrade_8a83, Created, Made
<1>13. Builds(Revisions[13].up, 32, 1, 0)
  BY DEF Builds, Revisions, upgrade_f89b, Created, Made
<1>14. Builds(Revisions[14].up, 33, 0, 0)
  BY DEF Builds, Revisions
<1>15. Builds(Revisions[15].up, 33, 0, 9)
  BY DEF Builds, Revisions, upgrade_feb6, SoftDeleted
<1> QED
  BY <1>1, <1>2, <1>3, <1>4, <1>5, <1>6, <1>7, <1>8, <1>9, <1>10, <1>11, <1>12,
     <1>13, <1>14, <1>15, Counts DEF Alters

\* Every downgrade() of alembic/versions drops what its upgrade() created in the
\* reverse order, after its changes to others.
LEMMA DownSteps ==
    \A r \in 1 .. 15 :
       Removes(Revisions[r].down, Count(r), Count(r) - Count(r - 1), Alters(r))
<1>1. Removes(Revisions[1].down, 4, 4, 1)
  BY DEF Removes, Revisions, downgrade_2b, Created, Made
<1>2. Removes(Revisions[2].down, 7, 3, 0)
  BY DEF Removes, Revisions, downgrade_2c, Created, Made
<1>3. Removes(Revisions[3].down, 9, 2, 0)
  BY DEF Removes, Revisions, downgrade_2d, Created, Made, workspace_invites
<1>4. Removes(Revisions[4].down, 9, 0, 1)
  BY DEF Removes, Revisions, downgrade_2e
<1>5. Removes(Revisions[5].down, 12, 3, 0)
  BY DEF Removes, Revisions, downgrade_2f, Created, Made
<1>6. Removes(Revisions[6].down, 19, 7, 1)
  BY DEF Removes, Revisions, downgrade_6d96, Created, Made
<1>7. Removes(Revisions[7].down, 21, 2, 0)
  BY DEF Removes, Revisions, downgrade_7cd2, Created, Made
<1>8. Removes(Revisions[8].down, 24, 3, 0)
  BY DEF Removes, Revisions, downgrade_e0e7, Created, Made
<1>9. Removes(Revisions[9].down, 27, 3, 0)
  BY DEF Removes, Revisions, downgrade_a7be, Created, Made
<1>10. Removes(Revisions[10].down, 28, 1, 0)
  BY DEF Removes, Revisions, downgrade_83b5, Created, Made
<1>11. Removes(Revisions[11].down, 28, 0, 1)
  BY DEF Removes, Revisions, downgrade_8c6a
<1>12. Removes(Revisions[12].down, 32, 4, 0)
  BY DEF Removes, Revisions, downgrade_8a83, Created, Made
<1>13. Removes(Revisions[13].down, 33, 1, 0)
  BY DEF Removes, Revisions, downgrade_f89b, Created, Made
<1>14. Removes(Revisions[14].down, 33, 0, 0)
  BY DEF Removes, Revisions
<1>15. Removes(Revisions[15].down, 33, 0, 9)
  BY DEF Removes, Revisions, downgrade_feb6, SoftDeleted
<1> QED
  BY <1>1, <1>2, <1>3, <1>4, <1>5, <1>6, <1>7, <1>8, <1>9, <1>10, <1>11, <1>12,
     <1>13, <1>14, <1>15, Counts DEF Alters

-----------------------------------------------------------------------------
\* The users from 2b to 2e; then without the index on last_login, which
\* downgrade_2e does not create again; from 2e to 6d964d031095; and after it.
users_2b == [users EXCEPT !.refs = To("workspaces", {"default_workspace_id"})]

WithoutLogin(def) == [def EXCEPT !.index = @ \ {{"last_login"}}]

users_2e ==
    [required |-> {"email", "language", "onboarding_completed", "is_active",
         "is_verified", "supabase_user_id"} \cup Stamps,
     optional |-> {"first_name", "last_name", "avatar_url", "phone",
         "job_title", "default_workspace_id", "deleted_at"},
     refs |-> To("workspaces", {"default_workspace_id"}),
     index |-> Each({"deleted_at", "email", "id", "supabase_user_id"}),
     unique |-> Each({"email", "supabase_user_id"}), types |-> {}]

users_6d96 == [users_2e EXCEPT !.required = @ \ {"is_verified"}]

\* The audit logs from 8c6ab8f9e25e on.
audit_logs_8c6a ==
    [required |-> {"id", "action", "resource_type", "resource_id", "timestamp"},
     optional |-> {"workspace_id", "actor_id", "old_values", "new_values",
         "metadata_info", "request_id", "ip_address", "user_agent",
         "correlation_id"}, refs |-> {},
     index |-> Each({"workspace_id", "resource_id", "actor_id",
         "correlation_id", "resource_type", "timestamp"})
         \cup {{"workspace_id", "resource_type"}}, unique |-> {}, types |-> {}]

\* The change each revision makes to one table, and its way back.
change_2b == [Same EXCEPT !.refs = To("workspaces", {"default_workspace_id"})]
unchange_2b == [Same EXCEPT !.drop_refs = {"default_workspace_id"}]
change_2e == upgrade_2e[1].change
unchange_2e == downgrade_2e[1].change
change_6d96 == [Same EXCEPT !.drop = {"is_verified"}]
unchange_6d96 == [Same EXCEPT !.defaulted = {"is_verified"}]
change_8c6a == upgrade_8c6a[1].change
unchange_8c6a == downgrade_8c6a[1].change

\* What CanAlter asks of the definition of the table alone.
Fitting(def, c) ==
    /\ c.drop \subseteq Columns(def)
    /\ c.drop_index \subseteq def.index
    /\ c.drop_refs \subseteq {r[1] : r \in def.refs}
    /\ (c.required \cup c.defaulted \cup c.optional) \cap (Columns(def) \ c.drop) = {}
    /\ c.index \cap Without(c.drop, def.index \ c.drop_index) = {}

\* The users between 2b and 2e field by field, with and without the index.
LEMMA Users2b ==
    /\ users_2b = [required |-> users.required, optional |-> users.optional,
                   refs |-> To("workspaces", {"default_workspace_id"}),
                   index |-> users.index, unique |-> users.unique, types |-> {}]
    /\ WithoutLogin(users_2b) =
                  [required |-> users.required, optional |-> users.optional,
                   refs |-> To("workspaces", {"default_workspace_id"}),
                   index |-> users.index \ {{"last_login"}},
                   unique |-> users.unique, types |-> {}]
<1>1. users = [required |-> users.required, optional |-> users.optional,
               refs |-> {}, index |-> users.index, unique |-> users.unique,
               types |-> {}]
  BY DEF users
<1>2. users_2b = [required |-> users.required, optional |-> users.optional,
                  refs |-> To("workspaces", {"default_workspace_id"}),
                  index |-> users.index, unique |-> users.unique, types |-> {}]
  BY <1>1 DEF users_2b
<1> DEFINE index == users.index \ {{"last_login"}}
<1>3. WithoutLogin(users_2b) = [users_2b EXCEPT !.index = index]
  BY <1>2 DEF WithoutLogin
<1> HIDE DEF index
<1>4. WithoutLogin(users_2b) =
         [required |-> users.required, optional |-> users.optional,
          refs |-> To("workspaces", {"default_workspace_id"}), index |-> index,
          unique |-> users.unique, types |-> {}]
  BY <1>2, <1>3
<1> QED
  BY <1>2, <1>4 DEF index

\* 2b gives the users their foreign key to workspaces.
LEMMA Change2b ==
    /\ Fitting(users, change_2b)
    /\ Altered(users, change_2b) = users_2b
<1>1. users.refs = {} /\ users.types = {}
  BY DEF users
<1>2. Altered(users, change_2b) =
         [required |-> users.required, optional |-> users.optional,
          refs |-> To("workspaces", {"default_workspace_id"}),
          index |-> users.index, unique |-> users.unique, types |-> users.types]
  BY <1>1 DEF Altered, Without, change_2b, Same
<1> QED
  BY <1>1, <1>2, Users2b DEF Fitting, change_2b, Same

\* Whether the index is there or not, downgrade of 2b can drop the foreign key,
\* and then no table references workspaces.
LEMMA Unchange2b ==
    ASSUME NEW def \in {users_2b, WithoutLogin(users_2b)}
    PROVE  /\ Fitting(def, unchange_2b)
           /\ Altered(def, unchange_2b).refs = {}
<1>1. def.refs = {<<"default_workspace_id", "workspaces">>}
  BY Users2b DEF To
<1>2. {r \in def.refs : r[1] \notin {} \cup {"default_workspace_id"}} \cup {} = {}
  BY <1>1
<1> QED
  BY <1>1, <1>2 DEF Fitting, Altered, Without, unchange_2b, Same

\* 2e_supabase_auth makes the same users of both: the index goes with its column.
LEMMA Change2e ==
    ASSUME NEW def \in {users_2b, WithoutLogin(users_2b)}
    PROVE  /\ Fitting(def, change_2e)
           /\ Altered(def, change_2e) = users_2e
<1> DEFINE c == change_2e
<1>1. c = [drop |-> {"hashed_password", "last_login", "password_changed_at",
                     "two_factor_enabled", "is_verified"},
           drop_index |-> {}, drop_refs |-> {}, required |-> {"supabase_user_id"},
           defaulted |-> {"is_verified"}, optional |-> {}, loosen |-> {},
           tighten |-> {}, index |-> {{"supabase_user_id"}},
           unique |-> {{"supabase_user_id"}}, refs |-> {}]
  BY DEF change_2e, upgrade_2e, alter, Same
<1>2. /\ def.required = users.required
      /\ def.optional = users.optional
      /\ def.refs = {<<"default_workspace_id", "workspaces">>}
      /\ def.index \in {users.index, users.index \ {{"last_login"}}}
      /\ def.unique = users.unique
      /\ def.types = {}
  BY Users2b DEF To
<1> HIDE DEF c
<1>3. Fitting(def, c)
  <2>1. c.drop \subseteq Columns(def)
    BY <1>1, <1>2 DEF Columns, users
  <2>2. (c.required \cup c.defaulted \cup c.optional) \cap (Columns(def) \ c.drop) = {}
    BY <1>1, <1>2 DEF Columns, users, Stamps
  <2>3. c.index \cap Without(c.drop, def.index \ c.drop_index) = {}
    BY <1>1, <1>2 DEF Without, users, Each
  <2> QED
    BY <1>1, <2>1, <2>2, <2>3 DEF Fitting
<1>4. (def.required \ (c.drop \cup c.loosen))
         \cup c.required \cup c.defaulted \cup c.tighten = users_2e.required
  BY <1>1, <1>2 DEF users, users_2e, Stamps
<1>5. (def.optional \ (c.drop \cup c.tighten)) \cup c.optional \cup c.loosen = users_2e.optional
  BY <1>1, <1>2 DEF users, users_2e
<1>6. {r \in def.refs : r[1] \notin c.drop \cup c.drop_refs} \cup c.refs = users_2e.refs
  BY <1>1, <1>2 DEF users_2e, To
<1>7. Without(c.drop, def.index \ c.drop_index) \cup c.index = users_2e.index
  BY <1>1, <1>2 DEF users, users_2e, Without, Each
<1>8. Without(c.drop, def.unique \ c.drop_index) \cup c.unique = users_2e.unique
  BY <1>1, <1>2 DEF users, users_2e, Without, Each
<1> QED
  BY <1>2, <1>3, <1>4, <1>5, <1>6, <1>7, <1>8 DEF Altered, users_2e, c

\* downgrade of 2e restores the users of 2b, but for the index on last_login.
LEMMA Unchange2e ==
    /\ Fitting(users_2e, unchange_2e)
    /\ Altered(users_2e, unchange_2e) = WithoutLogin(users_2b)
<1> DEFINE c == unchange_2e
<1>1. c = [drop |-> {"supabase_user_id", "is_verified"},
           drop_index |-> {{"supabase_user_id"}}, drop_refs |-> {},
           required |-> {"is_verified", "two_factor_enabled", "hashed_password"},
           defaulted |-> {}, optional |-> {"password_changed_at", "last_login"},
           loosen |-> {}, tighten |-> {}, index |-> {}, unique |-> {}, refs |-> {}]
  BY DEF unchange_2e, downgrade_2e, alter, Same
<1> DEFINE def == users_2e
           new == WithoutLogin(users_2b)
<1>2. new = [required |-> users.required, optional |-> users.optional,
             refs |-> To("workspaces", {"default_workspace_id"}),
             index |-> users.index \ {{"last_login"}}, unique |-> users.unique,
             types |-> {}]
  BY Users2b
<1> HIDE DEF c, new
<1>3. Fitting(def, c)
  <2>1. c.drop \subseteq Columns(def)
    BY <1>1 DEF Columns, users_2e
  <2>2. (c.required \cup c.defaulted \cup c.optional) \cap (Columns(def) \ c.drop) = {}
    BY <1>1 DEF Columns, users_2e, Stamps
  <2>3. c.drop_index \subseteq def.index
    BY <1>1 DEF users_2e, Each
  <2> QED
    BY <1>1, <2>1, <2>2, <2>3 DEF Fitting
<1>4. (def.required \ (c.drop \cup c.loosen))
         \cup c.required \cup c.defaulted \cup c.tighten = new.required
  BY <1>1, <1>2 DEF users, users_2e, Stamps
<1>5. (def.optional \ (c.drop \cup c.tighten)) \cup c.optional \cup c.loosen = new.optional
  BY <1>1, <1>2 DEF users, users_2e
<1>6. {r \in def.refs : r[1] \notin c.drop \cup c.drop_refs} \cup c.refs = new.refs
  BY <1>1, <1>2 DEF users_2e, To
<1>7. Without(c.drop, def.index \ c.drop_index) \cup c.index = new.index
  BY <1>1, <1>2 DEF users, users_2e, Without, Each
<1>8. Without(c.drop, def.unique \ c.drop_index) \cup c.unique = new.unique
  BY <1>1, <1>2 DEF users, users_2e, Without, Each
<1>9. def.types = new.types
  BY <1>2 DEF users_2e
<1> QED
  BY <1>2, <1>3, <1>4, <1>5, <1>6, <1>7, <1>8, <1>9 DEF Altered, c, new

\* 6d964d031095 drops is_verified from the users.
LEMMA Change6d96 ==
    /\ Fitting(users_2e, change_6d96)
    /\ Altered(users_2e, change_6d96) = users_6d96
<1>1. users_6d96 = [users_2e EXCEPT !.required = users_2e.required \ {"is_verified"}]
  BY DEF users_6d96
<1>2. {r \in users_2e.refs : r[1] \notin {"is_verified"} \cup {}} \cup {} = users_2e.refs
  BY DEF users_2e, To
<1>3. {k \in users_2e.index \ {} : k \cap {"is_verified"} = {}} \cup {} = users_2e.index
  BY DEF users_2e, Each
<1>4. {k \in users_2e.unique \ {} : k \cap {"is_verified"} = {}} \cup {} = users_2e.unique
  BY DEF users_2e, Each
<1>5. /\ users_2e.optional \ {"is_verified"} = users_2e.optional
      /\ "is_verified" \in users_2e.required
  BY DEF users_2e
<1>6. users_2e = [required |-> users_2e.required, optional |-> users_2e.optional,
                  refs |-> users_2e.refs, index |-> users_2e.index,
                  unique |-> users_2e.unique, types |-> users_2e.types]
  BY DEF users_2e
<1> QED
  BY <1>1, <1>2, <1>3, <1>4, <1>5, <1>6
     DEF Fitting, Columns, Altered, Without, change_6d96, Same

\* downgrade of 6d964d031095 puts is_verified back.
LEMMA Unchange6d96 ==
    /\ Fitting(users_6d96, unchange_6d96)
    /\ Altered(users_6d96, unchange_6d96) = users_2e
<1>1. users_2e = [required |-> users_2e.required, optional |-> users_2e.optional,
                  refs |-> users_2e.refs, index |-> users_2e.index,
                  unique |-> users_2e.unique, types |-> users_2e.types]
  BY DEF users_2e
<1>2. users_6d96 = [required |-> users_2e.required \ {"is_verified"},
                    optional |-> users_2e.optional, refs |-> users_2e.refs,
                    index |-> users_2e.index, unique |-> users_2e.unique,
                    types |-> users_2e.types]
  BY <1>1 DEF users_6d96
<1>3. "is_verified" \in users_2e.required /\ "is_verified" \notin users_2e.optional
  BY DEF users_2e
<1> QED
  BY <1>1, <1>2, <1>3 DEF Fitting, Columns, Altered, Without, unchange_6d96, Same

\* 8c6ab8f9e25e rewrites the audit logs.
LEMMA Change8c6a ==
    /\ Fitting(audit_logs, change_8c6a)
    /\ Altered(audit_logs, change_8c6a) = audit_logs_8c6a
<1> DEFINE c == change_8c6a
           def == audit_logs
           new == audit_logs_8c6a
<1>1. c = [drop |-> {"created_at", "resource", "user_id"},
           drop_index |-> Each({"action", "id", "request_id", "resource", "user_id"}),
           drop_refs |-> {"workspace_id", "user_id"},
           required |-> {"resource_type"}, defaulted |-> {"timestamp"},
           optional |-> {"actor_id", "user_agent", "correlation_id"},
           loosen |-> {"workspace_id"}, tighten |-> {"resource_id"},
           index |-> Each({"actor_id", "correlation_id", "resource_type", "timestamp"})
                     \cup {{"workspace_id", "resource_type"}},
           unique |-> {}, refs |-> {}]
  BY DEF change_8c6a, upgrade_8c6a, alter, Same
<1> HIDE DEF c
<1>2. c.drop \subseteq Columns(def)
  BY <1>1 DEF Columns, audit_logs
<1>3. (c.required \cup c.defaulted \cup c.optional) \cap (Columns(def) \ c.drop) = {}
  BY <1>1 DEF Columns, audit_logs
<1>4. c.drop_index \subseteq def.index
  BY <1>1 DEF audit_logs, Each
<1>5. c.index \cap Without(c.drop, def.index \ c.drop_index) = {}
  BY <1>1 DEF audit_logs, Each, Without
<1>6. c.drop_refs \subseteq {r[1] : r \in def.refs}
  <2>1. /\ <<"user_id", "users">> \in def.refs
        /\ <<"workspace_id", "workspaces">> \in def.refs
    BY DEF audit_logs, To
  <2>2. "user_id" \in {r[1] : r \in def.refs} /\ "workspace_id" \in {r[1] : r \in def.refs}
    BY <2>1
  <2> QED
    BY <1>1, <2>2
<1>7. (def.required \ (c.drop \cup c.loosen))
         \cup c.required \cup c.defaulted \cup c.tighten = new.required
  BY <1>1 DEF audit_logs, audit_logs_8c6a
<1>8. (def.optional \ (c.drop \cup c.tighten)) \cup c.optional \cup c.loosen = new.optional
  BY <1>1 DEF audit_logs, audit_logs_8c6a
<1>9. {r \in def.refs : r[1] \notin c.drop \cup c.drop_refs} \cup c.refs = new.refs
  BY <1>1 DEF audit_logs, audit_logs_8c6a, To
<1>10. Without(c.drop, def.index \ c.drop_index) \cup c.index = new.index
  BY <1>1 DEF audit_logs, audit_logs_8c6a, Without, Each
<1>11. /\ Without(c.drop, def.unique \ c.drop_index) \cup c.unique = new.unique
       /\ def.types = new.types
  BY <1>1 DEF audit_logs, audit_logs_8c6a, Without
<1> QED
  BY <1>2, <1>3, <1>4, <1>5, <1>6, <1>7, <1>8, <1>9, <1>10, <1>11
     DEF Fitting, Altered, audit_logs_8c6a, c

\* downgrade of 8c6ab8f9e25e restores the audit logs column by column and index
\* by index.
LEMMA Unchange8c6a ==
    /\ Fitting(audit_logs_8c6a, unchange_8c6a)
    /\ Altered(audit_logs_8c6a, unchange_8c6a) = audit_logs
<1> DEFINE c == unchange_8c6a
           def == audit_logs_8c6a
           new == audit_logs
<1>1. c = [drop |-> {"timestamp", "correlation_id", "user_agent",
                     "resource_type", "actor_id"},
           drop_index |-> Each({"actor_id", "correlation_id", "resource_type", "timestamp"})
                          \cup {{"workspace_id", "resource_type"}},
           drop_refs |-> {},
           required |-> {"resource", "created_at"}, defaulted |-> {},
           optional |-> {"user_id"},
           loosen |-> {"resource_id"}, tighten |-> {"workspace_id"},
           index |-> Each({"action", "id", "request_id", "resource", "user_id"}),
           unique |-> {},
           refs |-> To("users", {"user_id"}) \cup To("workspaces", {"workspace_id"})]
  BY DEF unchange_8c6a, downgrade_8c6a, alter, Same
<1> HIDE DEF c
<1>2. c.drop \subseteq Columns(def)
  BY <1>1 DEF Columns, audit_logs_8c6a
<1>3. (c.required \cup c.defaulted \cup c.optional) \cap (Columns(def) \ c.drop) = {}
  BY <1>1 DEF Columns, audit_logs_8c6a
<1>4. c.drop_index \subseteq def.index
  BY <1>1 DEF audit_logs_8c6a, Each
<1>5. c.index \cap Without(c.drop, def.index \ c.drop_index) = {}
  BY <1>1 DEF audit_logs_8c6a, Each, Without
<1>6. c.drop_refs \subseteq {r[1] : r \in def.refs}
  BY <1>1 DEF audit_logs_8c6a
<1>7. (def.required \ (c.drop \cup c.loosen))
         \cup c.required \cup c.defaulted \cup c.tighten = new.required
  BY <1>1 DEF audit_logs, audit_logs_8c6a
<1>8. (def.optional \ (c.drop \cup c.tighten)) \cup c.optional \cup c.loosen = new.optional
  BY <1>1 DEF audit_logs, audit_logs_8c6a
<1>9. {r \in def.refs : r[1] \notin c.drop \cup c.drop_refs} \cup c.refs = new.refs
  BY <1>1 DEF audit_logs, audit_logs_8c6a
<1>10. Without(c.drop, def.index \ c.drop_index) \cup c.index = new.index
  BY <1>1 DEF audit_logs, audit_logs_8c6a, Without, Each
<1>11. /\ Without(c.drop, def.unique \ c.drop_index) \cup c.unique = new.unique
       /\ def.types = new.types
  BY <1>1 DEF audit_logs, audit_logs_8c6a, Without
<1>12. new = [required |-> new.required, optional |-> new.optional,
              refs |-> new.refs, index |-> new.index, unique |-> new.unique,
              types |-> new.types]
  BY DEF audit_logs
<1> QED
  BY <1>2, <1>3, <1>4, <1>5, <1>6, <1>7, <1>8, <1>9, <1>10, <1>11, <1>12
     DEF Fitting, Altered, c

-----------------------------------------------------------------------------
\* What feb635deb4a4 does to each of its tables, and undoes.
Softening == [Same EXCEPT !.defaulted = {"is_deleted"}]
Hardening == [Same EXCEPT !.drop = {"is_deleted"}]

Softened(def) == [def EXCEPT !.required = @ \cup {"is_deleted"}]

\* No is_deleted yet, in no column, key or index.
Deletable(def) ==
    /\ def = [required |-> def.required, optional |-> def.optional,
              refs |-> def.refs, index |-> def.index, unique |-> def.unique,
              types |-> def.types]
    /\ "is_deleted" \notin Columns(def)
    /\ \A k \in def.index \cup def.unique : "is_deleted" \notin k
    /\ \A r \in def.refs : r[1] # "is_deleted"

\* is_deleted can be added to such a table, and dropping it restores the table.
LEMMA SoftenEffect ==
    ASSUME NEW def, Deletable(def)
    PROVE  /\ Fitting(def, Softening)
           /\ Altered(def, Softening) = Softened(def)
           /\ Fitting(Softened(def), Hardening)
           /\ Altered(Softened(def), Hardening) = def
<1>1. Softened(def) = [required |-> def.required \cup {"is_deleted"},
                       optional |-> def.optional, refs |-> def.refs,
                       index |-> def.index, unique |-> def.unique,
                       types |-> def.types]
  <2> DEFINE required == def.required \cup {"is_deleted"}
  <2>1. Softened(def) = [def EXCEPT !.required = required]
    BY DEF Softened
  <2> HIDE DEF required
  <2>2. Softened(def) = [required |-> required, optional |-> def.optional,
                         refs |-> def.refs, index |-> def.index,
                         unique |-> def.unique, types |-> def.types]
    BY <2>1 DEF Deletable
  <2> QED
    BY <2>2 DEF required
<1>2. Fitting(def, Softening)
  BY DEF Fitting, Deletable, Columns, Without, Softening, Same
<1>3. Fitting(Softened(def), Hardening)
  BY <1>1 DEF Fitting, Deletable, Columns, Without, Hardening, Same
<1>4. Altered(def, Softening) =
        [required |-> def.required \cup {"is_deleted"},
                       optional |-> def.optional, refs |-> def.refs,
                       index |-> def.index, unique |-> def.unique,
                       types |-> def.types]
  <2>1. {r \in def.refs : r[1] \notin {} \cup {}} \cup {} = def.refs
    OBVIOUS
  <2>2. {k \in def.index \ {} : k \cap {} = {}} \cup {} = def.index
    OBVIOUS
  <2>3. {k \in def.unique \ {} : k \cap {} = {}} \cup {} = def.unique
    OBVIOUS
  <2> QED
    BY <2>1, <2>2, <2>3 DEF Altered, Without, Softening, Same
<1>5. Altered(Softened(def), Hardening) = def
  <2>1. {r \in def.refs : r[1] \notin {"is_deleted"} \cup {}} \cup {} = def.refs
    BY DEF Deletable
  <2>2. {k \in def.index \ {} : k \cap {"is_deleted"} = {}} \cup {} = def.index
    BY DEF Deletable
  <2>3. {k \in def.unique \ {} : k \cap {"is_deleted"} = {}} \cup {} = def.unique
    BY DEF Deletable
  <2>4. ((def.required \cup {"is_deleted"}) \ ({"is_deleted"} \cup {})) \cup {} \cup {} \cup {}
           = def.required
    BY DEF Deletable, Columns
  <2>5. (def.optional \ ({"is_deleted"} \cup {})) \cup {} \cup {} = def.optional
    BY DEF Deletable, Columns
  <2> DEFINE new == Softened(def)
  <2>6. /\ new.required = def.required \cup {"is_deleted"}
        /\ new.optional = def.optional
        /\ new.refs = def.refs
        /\ new.index = def.index
        /\ new.unique = def.unique
        /\ new.types = def.types
    BY <1>1
  <2> HIDE DEF new
  <2>7. Altered(new, Hardening) =
        [required |-> def.required, optional |-> def.optional, refs |-> def.refs,
         index |-> def.index, unique |-> def.unique, types |-> def.types]
    BY <2>1, <2>2, <2>3, <2>4, <2>5, <2>6 DEF Altered, Without, Hardening, Same
  <2> QED
    BY <2>7 DEF Deletable, new
<1> QED
  BY <1>1, <1>2, <1>3, <1>4, <1>5

\* Where the tables of SoftDeleted stand in the order of creation.
Soft == <<2, 4, 8, 15, 13, 14, 17, 20, 21>>

\* Soft gives the places of the tables TABLES of feb635deb4a4 names.
LEMMA SoftNames ==
    /\ Len(SoftDeleted) = 9
    /\ \A n \in 1 .. 9 : Soft[n] \in 1 .. 33 /\ SoftDeleted[n] = Created[Soft[n]]
    /\ \A n, m \in 1 .. 9 : Soft[n] = Soft[m] => n = m
  BY DEF Soft, SoftDeleted, Created

\* None of those tables has is_deleted before feb635deb4a4.
LEMMA SoftTables ==
    /\ Deletable(users_6d96)
    /\ Deletable(Made[4])
    /\ Deletable(Made[8])
    /\ Deletable(Made[13])
    /\ Deletable(Made[14])
    /\ Deletable(Made[15])
    /\ Deletable(Made[17])
    /\ Deletable(Made[20])
    /\ Deletable(Made[21])
<1>1. Deletable(users_6d96)
  <2>1. users_6d96 = [required |-> users_2e.required \ {"is_verified"},
                      optional |-> users_2e.optional, refs |-> users_2e.refs,
                      index |-> users_2e.index, unique |-> users_2e.unique,
                      types |-> users_2e.types]
    BY DEF users_6d96, users_2e
  <2>2. Deletable(users_2e)
    BY DEF Deletable, Columns, users_2e, Each, To, Stamps
  <2> QED
    BY <2>1, <2>2 DEF Deletable, Columns
<1>2. Deletable(workspaces)
  BY DEF Deletable, Columns, workspaces, Each, To, AuthorRefs, Authors, Stamps
<1>3. Deletable(workspace_members)
  BY DEF Deletable, Columns, workspace_members, Each, To, AuthorRefs, Authors, Stamps
<1>4. Deletable(assets)
  BY DEF Deletable, Columns, assets, Each, To, AuthorRefs, Authors, Stamps
<1>5. Deletable(brand_kits)
  BY DEF Deletable, Columns, brand_kits, Each, To, AuthorRefs, Authors, Stamps
<1>6. Deletable(campaigns)
  BY DEF Deletable, Columns, campaigns, Each, To, AuthorRefs, Authors, Stamps
<1>7. Deletable(campaign_content)
  BY DEF Deletable, Columns, campaign_content, Each, To, AuthorRefs, Authors, Stamps
<1>8. Deletable(social_accounts)
  BY DEF Deletable, Columns, social_accounts, Each, To, AuthorRefs, Authors, Stamps
<1>9. Deletable(publish_history)
  BY DEF Deletable, Columns, publish_history, Each, To, AuthorRefs, Authors, Stamps
<1> QED
  BY <1>1, <1>2, <1>3, <1>4, <1>5, <1>6, <1>7, <1>8, <1>9 DEF Made

-----------------------------------------------------------------------------
\* CanAlter asks for the table, its fitting definition, the tables the new keys
\* reference, and no rows where a column may no longer be null.
LEMMA AlterAllowed ==
    ASSUME NEW d, NEW t, NEW c
    PROVE  CanAlter(d, alter(t, c)) <=>
              /\ t \in DOMAIN d.tables
              /\ Fitting(d.tables[t], c)
              /\ \A r \in c.refs : r[2] \in DOMAIN d.tables
              /\ t \in d.rows => c.required = {} /\ c.tighten = {}
  BY DEF CanAlter, alter, Fitting

\* A database e after nine tables of d have had the same change.
AlteredEach(d, e, order, c) ==
    /\ IsDatabase(e)
    /\ e.ok
    /\ e.types = d.types
    /\ e.rows = d.rows
    /\ DOMAIN e.tables = Known(33)
    /\ \A i \in 1 .. 33 :
          e.tables[Created[i]] =
             IF \E m \in 1 .. 9 : order[m] = i
             THEN Altered(d.tables[Created[i]], c)
             ELSE d.tables[Created[i]]

\* feb635deb4a4 and its downgrade change their nine tables and can never fail.
LEMMA AlterEach ==
    ASSUME NEW d, IsDatabase(d), d.ok, NEW f, f[0] = d, NEW steps,
           Runs(f, 0, 9, steps), DOMAIN d.tables = Known(33),
           NEW order \in [1 .. 9 -> 1 .. 33],
           \A n, m \in 1 .. 9 : order[n] = order[m] => n = m,
           NEW c \in {Softening, Hardening},
           \A n \in 1 .. 9 : /\ steps[n] = alter(Created[order[n]], c)
                             /\ Fitting(d.tables[Created[order[n]]], c)
    PROVE  AlteredEach(d, f[9], order, c)
<1> DEFINE P(n) ==
              /\ IsDatabase(f[n])
              /\ f[n].ok
              /\ f[n].types = d.types
              /\ f[n].rows = d.rows
              /\ DOMAIN f[n].tables = Known(33)
              /\ \A i \in 1 .. 33 :
                    f[n].tables[Created[i]] =
                       IF \E m \in 1 .. n : order[m] = i
                       THEN Altered(d.tables[Created[i]], c)
                       ELSE d.tables[Created[i]]
           S == {n \in 0 .. 9 : P(n)}
<1>1. 0 \in S
  <2>1. ~ \E m \in 1 .. 0 : TRUE
    OBVIOUS
  <2>2. P(0)
    BY <2>1
  <2> HIDE DEF P
  <2> QED
    BY <2>2
<1>2. ASSUME NEW n \in 1 .. 9, n - 1 \in S
      PROVE  n \in S
  <2> DEFINE h == order[n]
             t == Created[h]
             e == f[n - 1]
  <2>1. P(n - 1) /\ h \in 1 .. 33
    BY <1>2
  <2>2. ~ \E m \in 1 .. n - 1 : order[m] = h
    OBVIOUS
  <2>3. t \in DOMAIN e.tables /\ e.tables[t] = d.tables[t]
    BY <2>1, <2>2 DEF Known
  <2>4. c.refs = {} /\ c.required = {} /\ c.tighten = {}
    BY DEF Softening, Hardening, Same
  <2>5. CanAlter(e, alter(t, c))
    BY <2>3, <2>4, AlterAllowed
  <2>6. f[n] = Stepped(e, alter(t, c))
    <3>1. n \in 0 + 1 .. 9 /\ e.ok
      <4>1. n \in 0 + 1 .. 9
        OBVIOUS
      <4> HIDE DEF h, t, e
      <4>2. e.ok
        BY <2>1 DEF e
      <4> QED
        BY <4>1, <4>2
    <3>2. f[n] = IF f[n - 1].ok THEN Stepped(f[n - 1], steps[n]) ELSE f[n - 1]
      BY <3>1 DEF Runs
    <3>3. steps[n] = alter(t, c)
      OBVIOUS
    <3> QED
      BY <3>1, <3>2, <3>3
  <2>7. /\ IsDatabase(f[n])
        /\ f[n].ok
        /\ f[n].types = e.types
        /\ f[n].rows = e.rows
        /\ DOMAIN f[n].tables = DOMAIN e.tables
        /\ f[n].tables[t] = Altered(d.tables[t], c)
        /\ \A x \in DOMAIN e.tables \ {t} : f[n].tables[x] = e.tables[x]
    <3> HIDE DEF t, e
    <3>1. IsDatabase(e) /\ e.ok
      BY <2>1 DEF e
    <3> QED
      BY <2>3, <2>5, <2>6, <3>1, AlterEffect
  <2>8. ASSUME NEW i \in 1 .. 33
        PROVE  f[n].tables[Created[i]] =
                  IF \E m \in 1 .. n : order[m] = i
                  THEN Altered(d.tables[Created[i]], c)
                  ELSE d.tables[Created[i]]
    <3>1. CASE i = h
      BY <2>7, <3>1
    <3>2. CASE i # h
      <4>1. Created[i] \in DOMAIN e.tables \ {t}
        BY <2>1, <3>2, CreatedOnce DEF Known
      <4>2. (\E m \in 1 .. n : order[m] = i) <=> \E m \in 1 .. n - 1 : order[m] = i
        BY <3>2
      <4>3. f[n].tables[Created[i]] = e.tables[Created[i]]
        BY <2>7, <4>1
      <4>4. e.tables[Created[i]] =
               IF \E m \in 1 .. n - 1 : order[m] = i
               THEN Altered(d.tables[Created[i]], c)
               ELSE d.tables[Created[i]]
        BY <2>1
      <4> QED
        BY <4>2, <4>3, <4>4
    <3> QED
      BY <3>1, <3>2
  <2>9. /\ f[n].types = d.types
        /\ f[n].rows = d.rows
        /\ DOMAIN f[n].tables = Known(33)
    BY <2>1, <2>7
  <2>10. P(n)
    BY <2>7, <2>8, <2>9
  <2> HIDE DEF P
  <2> QED
    BY <2>10
<1>3. 9 \in S
  <2>1. PICK k \in Nat : k = 9
    OBVIOUS
  <2> HIDE DEF S
  <2>2. \A n \in 0 + 1 .. k : n - 1 \in S => n \in S
    BY <1>2, <2>1
  <2>3. 0 \in Nat /\ 0 <= k
    OBVIOUS
  <2>4. 0 .. k \subseteq S
    BY <1>1, <2>2, <2>3, Induction, Zenon
  <2> QED
    BY <2>1, <2>4
<1> QED
  BY <1>3 DEF AlteredEach

\* The users at a revision; old says that the index on last_login was lost.
Users(old, r) ==
    IF r < 4 THEN IF old THEN WithoutLogin(users_2b) ELSE users_2b
    ELSE IF r < 6 THEN users_2e ELSE users_6d96

\* The audit logs at a revision.
AuditLogs(r) == IF r < 11 THEN audit_logs ELSE audit_logs_8c6a

\* The i-th table at a revision but for is_deleted.
Hard(old, r, i) ==
    IF i = 2 THEN Users(old, r) ELSE IF i = 11 THEN AuditLogs(r) ELSE Made[i]

\* The definition of the i-th table at a revision.
At(old, r, i) ==
    IF r = 15 /\ \E n \in 1 .. 9 : Soft[n] = i
    THEN Softened(Hard(old, r, i)) ELSE Hard(old, r, i)

\* The tables are those of a revision.
Fits(old, r, tbls) ==
    /\ DOMAIN tbls = Known(Count(r))
    /\ \A i \in 1 .. Count(r) : tbls[Created[i]] = At(old, r, i)

\* A revision creates no fewer than zero tables.
LEMMA CountGrows ==
    \A r \in 1 .. 15 : /\ Count(r) \in 0 .. 33
                       /\ Count(r - 1) \in 0 .. 33
                       /\ Count(r - 1) <= Count(r)
  BY Counts

\* A database e after a change to the h-th of the n tables of d.
AlteredAt(d, e, n, h, c) ==
    /\ IsDatabase(e)
    /\ e.ok <=> (Created[h] \in d.rows => c.required = {} /\ c.tighten = {})
    /\ e.types = d.types
    /\ e.rows = d.rows
    /\ e.ok =>
          /\ DOMAIN e.tables = Known(n)
          /\ \A i \in 1 .. n :
                e.tables[Created[i]] =
                   IF i = h THEN Altered(d.tables[Created[h]], c)
                   ELSE d.tables[Created[i]]

\* A fitting change to one table is refused exactly if it asks for a value in a
\* column of a table with rows.
LEMMA AlterOne ==
    ASSUME NEW d, IsDatabase(d), d.ok, NEW n \in 1 .. 33, NEW h \in 1 .. n,
           DOMAIN d.tables = Known(n), NEW c, Fitting(d.tables[Created[h]], c),
           \A r \in c.refs : r[2] \in Known(n),
           NEW e, e = Stepped(d, alter(Created[h], c))
    PROVE  AlteredAt(d, e, n, h, c)
<1> DEFINE t == Created[h]
<1>1. t \in DOMAIN d.tables
  BY DEF Known
<1>2. CanAlter(d, alter(t, c)) <=> (t \in d.rows => c.required = {} /\ c.tighten = {})
  BY <1>1, AlterAllowed
<1>3. \A i \in 1 .. n : i # h => Created[i] \in DOMAIN d.tables \ {t}
  BY CreatedOnce DEF Known
<1> HIDE DEF t
<1>4. /\ IsDatabase(e)
      /\ e.ok <=> CanAlter(d, alter(t, c))
      /\ e.types = d.types
      /\ e.rows = d.rows
      /\ e.ok => /\ DOMAIN e.tables = DOMAIN d.tables
                 /\ e.tables[t] = Altered(d.tables[t], c)
                 /\ \A x \in DOMAIN d.tables \ {t} : e.tables[x] = d.tables[x]
  BY AlterEffect DEF t
<1> QED
  BY <1>2, <1>3, <1>4 DEF t, AlteredAt

\* Where the tables stand whose names matter.
LEMMA Placed ==
    /\ Created[2] = "users" /\ Created[4] = "workspaces" /\ Created[11] = "audit_logs"
    /\ Made[2] = users /\ Made[11] = audit_logs
  BY DEF Created, Made

\* What can refuse the program of a revision.
Upgradable(r, d) ==
    /\ d.types \cap NewTypes(Count(r - 1), Count(r)) = {}
    /\ ~ (r = Auth /\ "users" \in d.rows)
    /\ ~ (r = Audit /\ "audit_logs" \in d.rows)

\* What the program of revision r makes of a database d at the one before.
StepUp(old, r, d, e) ==
    /\ IsDatabase(e)
    /\ e.ok <=> Upgradable(r, d)
    /\ e.rows = d.rows
    /\ e.ok => /\ e.types = d.types \cup NewTypes(Count(r - 1), Count(r))
               /\ Fits(IF r = 1 THEN FALSE ELSE old, r, e.tables)

\* The program of one upgrade() on any database of the revision before: it fails
\* only on a type left behind or on rows of users at 2e or audit logs at
\* 8c6ab8f9e25e, and else leaves the tables of its revision.
LEMMA UpStep ==
    ASSUME NEW r \in 1 .. 15, NEW d, IsDatabase(d), d.ok, NEW old \in BOOLEAN,
           Fits(old, r - 1, d.tables), NEW e, e = Run(d, Revisions[r].up)
    PROVE  StepUp(old, r, d, e)
<1> USE DEF StepUp
<1> DEFINE steps == Revisions[r].up
<1>1. PICK j \in 0 .. 33, k \in 0 .. 33 :
         j = Count(r - 1) /\ k = Count(r) - Count(r - 1) /\ j + k = Count(r) /\ j + k <= 33
  BY CountGrows
<1>2. Len(steps) = k + Alters(r) /\ Alters(r) \in Nat
      /\ \A i \in 1 .. k : steps[i] = create(Created[j + i], Made[j + i])
  <2>1. Builds(steps, j, k, Alters(r))
    BY <1>1, UpSteps
  <2> QED
    BY <2>1 DEF Builds, Alters
<1>3. PICK f : /\ f[0] = d
               /\ Runs(f, 0, k + Alters(r), steps)
               /\ e = f[k + Alters(r)]
  <2>1. Len(steps) \in Nat
    BY <1>2
  <2> HIDE DEF steps
  <2>2. PICK f : /\ f[0] = d
                 /\ Runs(f, 0, Len(steps), steps)
                 /\ Run(d, steps) = f[Len(steps)]
    BY <2>1, RunSteps
  <2> QED
    BY <1>2, <2>2 DEF steps
<1> DEFINE g == f[k]
<1>4. Built(d, g, j, k)
  <2>1. Runs(f, 0, k, steps)
    BY <1>2, <1>3, RunsPart
  <2>2. DOMAIN d.tables = Known(j)
    BY <1>1 DEF Fits
  <2> HIDE DEF steps
  <2>3. k \in 0 .. k /\ j \in Nat /\ k \in Nat /\ j + k <= 33
    BY <1>1
  <2>4. \A n \in 0 .. k : Built(d, f[n], j, n)
    BY <1>2, <1>3, <2>1, <2>2, <2>3, Creations
  <2> QED
    BY <2>3, <2>4
<1>5. CASE ~ g.ok
  <2>1. Runs(f, k, k + Alters(r), steps)
    <3> HIDE DEF steps
    <3>1. /\ 0 \in Nat /\ k \in Nat /\ k + Alters(r) \in Nat
          /\ 0 <= k /\ k <= k + Alters(r) /\ k + Alters(r) <= k + Alters(r)
      BY <1>2
    <3> QED
      BY <1>3, <3>1, RunsPart
  <2>2. g.ok = FALSE
    BY <1>4, <1>5 DEF IsDatabase, Built
  <2>3. e = g
    <3> HIDE DEF steps
    <3>1. k \in Nat /\ k + Alters(r) \in Nat /\ k <= k + Alters(r)
      BY <1>2
    <3> QED
      BY <1>3, <2>1, <2>2, <3>1, FailureStays
  <2> QED
    BY <1>1, <1>4, <1>5, <2>3 DEF Upgradable, Built
<1>6. ASSUME g.ok
      PROVE  /\ IsDatabase(g)
             /\ g.rows = d.rows
             /\ d.types \cap NewTypes(Count(r - 1), Count(r)) = {}
             /\ g.types = d.types \cup NewTypes(Count(r - 1), Count(r))
             /\ DOMAIN g.tables = Known(Count(r))
             /\ \A i \in 1 .. Count(r - 1) : g.tables[Created[i]] = At(old, r - 1, i)
             /\ \A i \in Count(r - 1) + 1 .. Count(r) : g.tables[Created[i]] = Made[i]
  BY <1>1, <1>4, <1>6 DEF Built, Fits
<1>7. CASE g.ok /\ Alters(r) = 0
  <2>1. e = g
    <3>1. k + Alters(r) = k
      BY <1>7
    <3> QED
      BY <1>3, <3>1
  <2>2. r \notin {1, 4, 6, 11, 15}
    BY <1>7 DEF Alters
  <2>3. ASSUME NEW i \in 1 .. Count(r)
        PROVE  g.tables[Created[i]] = At(old, r, i)
    <3>1. CASE i \in 1 .. Count(r - 1)
      BY <1>6, <1>7, <2>2, <3>1 DEF At, Hard, Users, AuditLogs
    <3>2. CASE i \in Count(r - 1) + 1 .. Count(r)
      <4>1. i # 2 /\ (i = 11 => r < 11)
        BY <2>2, <3>2, Counts
      <4> QED
        BY <1>6, <1>7, <2>2, <3>2, <4>1, Placed DEF At, Hard, AuditLogs
    <3> QED
      BY <1>1, <3>1, <3>2
  <2>4. Fits(old, r, e.tables)
    BY <1>6, <1>7, <2>1, <2>3 DEF Fits
  <2>5. Upgradable(r, d) /\ (IF r = 1 THEN FALSE ELSE old) = old
    BY <1>6, <1>7, <2>2 DEF Upgradable, Auth, Audit
  <2> QED
    BY <1>6, <1>7, <2>1, <2>4, <2>5
<1>8. ASSUME g.ok, Alters(r) = 1
      PROVE  e = Stepped(g, steps[k + 1])
  <2>1. k + 1 \in 0 + 1 .. k + Alters(r) /\ k + Alters(r) = k + 1 /\ k + 1 - 1 = k
    BY <1>8
  <2> QED
    BY <1>3, <1>8, <2>1 DEF Runs
<1>9. CASE g.ok /\ r = 1
  <2>1. Count(r) = 4 /\ k + 1 = 5
    BY <1>1, <1>9, Counts
  <2>2. steps[k + 1] = alter(Created[2], change_2b)
    BY <1>9, <2>1, Placed DEF Revisions, upgrade_2b, change_2b
  <2>3. e = Stepped(g, alter(Created[2], change_2b))
    BY <1>8, <1>9, <2>2 DEF Alters
  <2>4. /\ g.tables[Created[2]] = users
        /\ Fitting(g.tables[Created[2]], change_2b)
        /\ Altered(g.tables[Created[2]], change_2b) = users_2b
    BY <1>6, <1>9, <2>1, Counts, Placed, Change2b DEF At, Hard, Users, AuditLogs
  <2>5. /\ \A q \in change_2b.refs : q[2] \in Known(4)
        /\ change_2b.required = {} /\ change_2b.tighten = {}
    BY Placed DEF change_2b, Same, To, Known
  <2> HIDE DEF steps, g
  <2>6. AlteredAt(g, e, 4, 2, change_2b)
    <3>1. /\ IsDatabase(g) /\ g.ok
          /\ 4 \in 1 .. 33 /\ 2 \in 1 .. 4
          /\ DOMAIN g.tables = Known(4)
      BY <1>6, <1>9, <2>1
    <3> QED
      BY <2>3, <2>4, <2>5, <3>1, AlterOne
  <2>7. ASSUME e.ok, NEW i \in 1 .. 4
        PROVE  e.tables[Created[i]] = At(FALSE, 1, i)
    BY <1>6, <1>9, <2>1, <2>4, <2>6, <2>7, Counts, Placed DEF AlteredAt, At, Hard, Users, AuditLogs
  <2>8. ASSUME e.ok
        PROVE  Fits(FALSE, 1, e.tables)
    BY <1>9, <2>1, <2>6, <2>7, <2>8 DEF AlteredAt, Fits
  <2>9. e.ok /\ IsDatabase(e) /\ e.rows = d.rows /\ e.types = g.types
    BY <1>6, <1>9, <2>5, <2>6 DEF AlteredAt
  <2>10. Upgradable(r, d)
    BY <1>6, <1>9 DEF Upgradable, Auth, Audit
  <2>11. (IF r = 1 THEN FALSE ELSE old) = FALSE
    BY <1>9
  <2> QED
    BY <1>6, <1>9, <2>8, <2>9, <2>10, <2>11
<1>10. CASE g.ok /\ r = 4
  <2>1. Count(r) = 9 /\ k + 1 = 1
    BY <1>1, <1>10, Counts
  <2>2. steps[k + 1] = alter(Created[2], change_2e)
    BY <1>10, <2>1, Placed DEF Revisions, upgrade_2e, change_2e, alter
  <2>3. e = Stepped(g, alter(Created[2], change_2e))
    BY <1>8, <1>10, <2>2 DEF Alters
  <2>4. /\ g.tables[Created[2]] \in {users_2b, WithoutLogin(users_2b)}
        /\ Fitting(g.tables[Created[2]], change_2e)
        /\ Altered(g.tables[Created[2]], change_2e) = users_2e
    BY <1>6, <1>10, <2>1, Counts, Placed, Change2e DEF At, Hard, Users, AuditLogs
  <2>5. /\ \A q \in change_2e.refs : q[2] \in Known(9)
        /\ change_2e.required # {}
    BY DEF change_2e, upgrade_2e, alter, Same
  <2> HIDE DEF steps, g
  <2>6. AlteredAt(g, e, 9, 2, change_2e)
    <3>1. /\ IsDatabase(g) /\ g.ok
          /\ 9 \in 1 .. 33 /\ 2 \in 1 .. 9
          /\ DOMAIN g.tables = Known(9)
      BY <1>6, <1>10, <2>1
    <3> QED
      BY <2>3, <2>4, <2>5, <3>1, AlterOne
  <2>7. ASSUME e.ok, NEW i \in 1 .. 9
        PROVE  e.tables[Created[i]] = At(old, 4, i)
    BY <1>6, <1>10, <2>1, <2>4, <2>6, <2>7, Counts, Placed DEF AlteredAt, At, Hard, Users, AuditLogs
  <2> QED
    BY <1>6, <1>10, <2>1, <2>5, <2>6, <2>7, Placed
       DEF AlteredAt, Upgradable, Fits, Auth, Audit
<1>11. CASE g.ok /\ r = 6
  <2>1. Count(r) = 19 /\ k + 1 = 8
    BY <1>1, <1>11, Counts
  <2>2. steps[k + 1] = alter(Created[2], change_6d96)
    BY <1>11, <2>1, Placed DEF Revisions, upgrade_6d96, change_6d96
  <2>3. e = Stepped(g, alter(Created[2], change_6d96))
    BY <1>8, <1>11, <2>2 DEF Alters
  <2>4. /\ g.tables[Created[2]] = users_2e
        /\ Fitting(g.tables[Created[2]], change_6d96)
        /\ Altered(g.tables[Created[2]], change_6d96) = users_6d96
    BY <1>6, <1>11, <2>1, Counts, Placed, Change6d96 DEF At, Hard, Users, AuditLogs
  <2>5. /\ \A q \in change_6d96.refs : q[2] \in Known(19)
        /\ change_6d96.required = {} /\ change_6d96.tighten = {}
    BY DEF change_6d96, Same
  <2> HIDE DEF steps, g
  <2>6. AlteredAt(g, e, 19, 2, change_6d96)
    <3>1. /\ IsDatabase(g) /\ g.ok
          /\ 19 \in 1 .. 33 /\ 2 \in 1 .. 19
          /\ DOMAIN g.tables = Known(19)
      BY <1>6, <1>11, <2>1
    <3> QED
      BY <2>3, <2>4, <2>5, <3>1, AlterOne
  <2>7. ASSUME e.ok, NEW i \in 1 .. 19
        PROVE  e.tables[Created[i]] = At(old, 6, i)
    BY <1>6, <1>11, <2>1, <2>4, <2>6, <2>7, Counts, Placed DEF AlteredAt, At, Hard, Users, AuditLogs
  <2> QED
    BY <1>6, <1>11, <2>1, <2>5, <2>6, <2>7, Placed
       DEF AlteredAt, Upgradable, Fits, Auth, Audit
<1>12. CASE g.ok /\ r = 11
  <2>1. Count(r) = 28 /\ k + 1 = 1
    BY <1>1, <1>12, Counts
  <2>2. steps[k + 1] = alter(Created[11], change_8c6a)
    BY <1>12, <2>1, Placed DEF Revisions, upgrade_8c6a, change_8c6a, alter
  <2>3. e = Stepped(g, alter(Created[11], change_8c6a))
    BY <1>8, <1>12, <2>2 DEF Alters
  <2>4. /\ g.tables[Created[11]] = audit_logs
        /\ Fitting(g.tables[Created[11]], change_8c6a)
        /\ Altered(g.tables[Created[11]], change_8c6a) = audit_logs_8c6a
    BY <1>6, <1>12, <2>1, Counts, Placed, Change8c6a DEF At, Hard, Users, AuditLogs
  <2>5. /\ \A q \in change_8c6a.refs : q[2] \in Known(28)
        /\ change_8c6a.required # {}
    BY DEF change_8c6a, upgrade_8c6a, alter, Same
  <2> HIDE DEF steps, g
  <2>6. AlteredAt(g, e, 28, 11, change_8c6a)
    <3>1. /\ IsDatabase(g) /\ g.ok
          /\ 28 \in 1 .. 33 /\ 11 \in 1 .. 28
          /\ DOMAIN g.tables = Known(28)
      BY <1>6, <1>12, <2>1
    <3> QED
      BY <2>3, <2>4, <2>5, <3>1, AlterOne
  <2>7. ASSUME e.ok, NEW i \in 1 .. 28
        PROVE  e.tables[Created[i]] = At(old, 11, i)
    BY <1>6, <1>12, <2>1, <2>4, <2>6, <2>7, Counts, Placed DEF AlteredAt, At, Hard, Users, AuditLogs
  <2> QED
    BY <1>6, <1>12, <2>1, <2>5, <2>6, <2>7, Placed
       DEF AlteredAt, Upgradable, Fits, Auth, Audit
<1>13. CASE g.ok /\ r = 15
  <2>1. Count(14) = 33 /\ Count(15) = 33 /\ k = 0 /\ Alters(r) = 9
    BY <1>1, <1>13, Counts DEF Alters
  <2>2. g = d /\ f[0] = d /\ Runs(f, 0, 9, steps) /\ e = f[9]
    BY <1>3, <2>1
  <2>3. /\ DOMAIN d.tables = Known(33)
        /\ \A i \in 1 .. 33 : d.tables[Created[i]] = At(old, 14, i)
    BY <1>13, <2>1 DEF Fits
  <2>4. \A i \in 1 .. 33 : At(old, 14, i) = Hard(old, 15, i)
    BY DEF At, Hard, Users, AuditLogs
  <2>5. \A n \in 1 .. 9 : Deletable(Hard(old, 15, Soft[n]))
    BY SoftTables DEF Hard, Users, Soft
  <2>6. ASSUME NEW n \in 1 .. 9
        PROVE  /\ steps[n] = alter(Created[Soft[n]], Softening)
               /\ Fitting(d.tables[Created[Soft[n]]], Softening)
    <3>1. steps[n] = alter(Created[Soft[n]], Softening)
      BY <1>13, SoftNames DEF Revisions, upgrade_feb6, SoftDeleted, Softening
    <3>2. d.tables[Created[Soft[n]]] = Hard(old, 15, Soft[n])
      BY <2>3, <2>4, SoftNames
    <3>3. Fitting(d.tables[Created[Soft[n]]], Softening)
      BY <2>5, <3>2, SoftenEffect
    <3> QED
      BY <3>1, <3>3
  <2>7. Soft \in [1 .. 9 -> 1 .. 33]
    BY DEF Soft
  <2> HIDE DEF steps
  <2>8. AlteredEach(d, e, Soft, Softening)
    <3>1. \A n, m \in 1 .. 9 : Soft[n] = Soft[m] => n = m
      BY SoftNames
    <3>2. Softening \in {Softening, Hardening}
      OBVIOUS
    <3> HIDE DEF Softening, Soft
    <3>3. AlteredEach(d, f[9], Soft, Softening)
      BY <2>2, <2>3, <2>6, <2>7, <3>1, <3>2, AlterEach
    <3> QED
      BY <2>2, <3>3
  <2>9. ASSUME NEW i \in 1 .. 33
        PROVE  e.tables[Created[i]] = At(old, 15, i)
    <3>1. CASE \E m \in 1 .. 9 : Soft[m] = i
      <4>1. Deletable(Hard(old, 15, i))
        BY <2>5, <3>1
      <4>2. e.tables[Created[i]] = Altered(Hard(old, 15, i), Softening)
        BY <2>3, <2>4, <2>8, <3>1 DEF AlteredEach
      <4>3. e.tables[Created[i]] = Softened(Hard(old, 15, i))
        BY <4>1, <4>2, SoftenEffect
      <4> QED
        BY <3>1, <4>3 DEF At
    <3>2. CASE ~ \E m \in 1 .. 9 : Soft[m] = i
      BY <2>3, <2>4, <2>8, <3>2 DEF AlteredEach, At
    <3> QED
      BY <3>1, <3>2
  <2>10. Fits(old, 15, e.tables)
    BY <2>1, <2>8, <2>9 DEF AlteredEach, Fits
  <2>11. Upgradable(r, d)
    BY <1>6, <1>13 DEF Upgradable, Auth, Audit
  <2>12. e.ok /\ IsDatabase(e) /\ e.rows = d.rows /\ e.types = g.types
    BY <2>2, <2>8 DEF AlteredEach
  <2> QED
    BY <1>6, <1>13, <2>10, <2>11, <2>12
<1> QED
  <2> HIDE DEF g, steps
  <2>1. CASE Alters(r) # 0
    <3>1. r \in {1, 4, 6, 11, 15}
      BY <2>1 DEF Alters
    <3> QED
      BY <1>5, <1>9, <1>10, <1>11, <1>12, <1>13, <3>1
  <2> QED
    BY <1>5, <1>7, <2>1

-----------------------------------------------------------------------------
\* A table references earlier ones, but for the users, which reference workspaces.
LEMMA AtRefs ==
    ASSUME NEW s \in 0 .. 14, NEW old \in BOOLEAN, NEW i \in 1 .. 33,
           NEW q \in At(old, s, i).refs
    PROVE  q[2] \in Known(i) \cup {Created[4]}
<1>1. At(old, s, i) = Hard(old, s, i)
  BY DEF At
<1>2. CASE i = 2
  <2>1. Users(old, s) \in {users_2b, WithoutLogin(users_2b), users_2e, users_6d96}
    BY DEF Users
  <2>2. users_6d96.refs = users_2e.refs
    BY DEF users_6d96, users_2e
  <2>3. Users(old, s).refs = To("workspaces", {"default_workspace_id"})
    BY <2>1, <2>2, Users2b DEF users_2e
  <2> QED
    BY <1>1, <1>2, <2>3, Referenced, Placed DEF Hard
<1>3. CASE i = 11
  <2>1. AuditLogs(s).refs \subseteq Made[11].refs
    BY Placed DEF AuditLogs, audit_logs_8c6a
  <2> QED
    BY <1>1, <1>3, <2>1, TablesMade DEF Hard
<1>4. CASE i # 2 /\ i # 11
  BY <1>1, <1>4, TablesMade DEF Hard
<1> QED
  BY <1>2, <1>3, <1>4

\* The tables of a revision are those of the one before, but for the one it
\* changes.
LEMMA AtBefore ==
    ASSUME NEW r \in 1 .. 14, NEW old \in BOOLEAN, NEW i \in 1 .. 33,
           r \in {1, 4, 6} => i # 2, r = 11 => i # 11
    PROVE  At(old, r, i) = At(old, r - 1, i)
  BY DEF At, Hard, Users, AuditLogs

\* Right after the revision that creates it a table is as it was created.
LEMMA AtCreated ==
    ASSUME NEW r \in 1 .. 14, NEW old \in BOOLEAN,
           NEW i \in Count(r - 1) + 1 .. Count(r), i # 2
    PROVE  At(old, r, i) = Made[i]
<1>1. i = 11 => r < 11
  BY Counts
<1> QED
  BY <1>1, Placed DEF At, Hard, AuditLogs

\* A database e after the tables of revision r have been dropped from d.
Undone(old, r, d, e) ==
    /\ IsDatabase(e)
    /\ e.ok
    /\ e.types = d.types
    /\ e.rows = d.rows \ {Created[i] : i \in Count(r - 1) + 1 .. Count(r)}
    /\ Fits(old, r - 1, e.tables)

\* What is left of a downgrade() after its changes never fails.
LEMMA DropRest ==
    ASSUME NEW r \in 1 .. 14, NEW old \in BOOLEAN, NEW f, NEW a \in Nat, NEW k \in Nat,
           k = Count(r) - Count(r - 1), NEW steps, Runs(f, a, a + k, steps),
           IsDatabase(f[a]), f[a].ok, DOMAIN f[a].tables = Known(Count(r)),
           \A i \in 1 .. Count(r - 1) : f[a].tables[Created[i]] = At(old, r - 1, i),
           \A i \in Count(r - 1) + 1 .. Count(r) :
              \A q \in f[a].tables[Created[i]].refs : q[2] \in Known(i) \cup Known(Count(r - 1)),
           \A i \in 1 .. k :
              \E index : /\ steps[a + i] = drop(Created[Count(r) + 1 - i], index)
                         /\ index \subseteq f[a].tables[Created[Count(r) + 1 - i]].index
    PROVE  Undone(old, r, f[a], f[a + k])
<1> DEFINE j == Count(r)
<1>1. j \in 0 .. 33 /\ Count(r - 1) \in 0 .. 33 /\ Count(r - 1) <= j /\ j - k = Count(r - 1)
  <2>1. r \in 1 .. 15
    OBVIOUS
  <2>2. Count(r) \in 0 .. 33 /\ Count(r - 1) \in 0 .. 33 /\ Count(r - 1) <= Count(r)
    BY <2>1, CountGrows
  <2> QED
    BY <2>2
<1>2. ASSUME NEW i \in 1 .. j, NEW q \in f[a].tables[Created[i]].refs
      PROVE  q[2] \in Known(i) \cup Known(j - k)
  <2>1. CASE i \in 1 .. Count(r - 1)
    <3>1. q[2] \in Known(i) \cup {Created[4]}
      <4>1. r - 1 \in 0 .. 14 /\ i \in 1 .. 33 /\ q \in At(old, r - 1, i).refs
        BY <1>1, <1>2, <2>1
      <4> QED
        BY <4>1, AtRefs
    <3>2. 4 <= Count(r - 1)
      BY <2>1, Counts
    <3> QED
      BY <1>1, <3>1, <3>2 DEF Known
  <2> QED
    BY <1>1, <1>2, <2>1
<1>3. Dropped(f[a], f[a + k], j, k)
  <2>1. j \in Nat /\ k <= j /\ j <= 33 /\ k \in 0 .. k
    BY <1>1
  <2>2. \A i \in 1 .. k :
           \E index : /\ steps[a + i] = drop(Created[j + 1 - i], index)
                      /\ index \subseteq f[a].tables[Created[j + 1 - i]].index
    OBVIOUS
  <2>3. DOMAIN f[a].tables = Known(j)
    OBVIOUS
  <2> HIDE DEF j
  <2>4. \A n \in 0 .. k : Dropped(f[a], f[a + n], j, n)
    BY <1>2, <2>1, <2>2, <2>3, Drops
  <2> QED
    BY <2>1, <2>4
<1> QED
  BY <1>1, <1>3 DEF Dropped, Undone, Fits

-----------------------------------------------------------------------------
\* What can refuse the way back over a revision.
Downgradable(r, d) ==
    /\ ~ (r = Auth /\ "users" \in d.rows)
    /\ ~ (r = Audit /\ "audit_logs" \in d.rows)

\* What the way back over revision r makes of a database d: the users lose the
\* index on last_login with downgrade_2e.
StepDown(old, r, d, e) ==
    /\ IsDatabase(e)
    /\ e.ok <=> Downgradable(r, d)
    /\ e.ok => Undone(r = 4 \/ old, r, d, e)

\* The program of one downgrade() on any database of its revision: it fails only
\* on rows of users at 2e or audit logs at 8c6ab8f9e25e, and else leaves the
\* tables of the revision before.
LEMMA DownStep ==
    ASSUME NEW r \in 1 .. 15, NEW d, IsDatabase(d), d.ok, NEW old \in BOOLEAN,
           Fits(old, r, d.tables), NEW e, e = Run(d, Revisions[r].down)
    PROVE  StepDown(old, r, d, e)
<1> DEFINE steps == Revisions[r].down
<1>1. PICK j \in 0 .. 33, k \in 0 .. 33 :
         j = Count(r) /\ k = Count(r) - Count(r - 1) /\ j - k = Count(r - 1) /\ k <= j
  BY CountGrows
<1>2. /\ Len(steps) = k + Alters(r) /\ Alters(r) \in Nat
      /\ \A i \in 1 .. k :
            \E index : /\ steps[Alters(r) + i] = drop(Created[j + 1 - i], index)
                       /\ index \subseteq Made[j + 1 - i].index
  <2>1. Removes(steps, j, k, Alters(r))
    BY <1>1, DownSteps
  <2> QED
    BY <2>1 DEF Removes, Alters
<1>3. PICK f : /\ f[0] = d
               /\ Runs(f, 0, Alters(r) + k, steps)
               /\ e = f[Alters(r) + k]
  <2>1. Len(steps) \in Nat
    BY <1>2
  <2> HIDE DEF steps
  <2>2. PICK f : /\ f[0] = d
                 /\ Runs(f, 0, Len(steps), steps)
                 /\ Run(d, steps) = f[Len(steps)]
    BY <2>1, RunSteps
  <2>3. Len(steps) = Alters(r) + k
    BY <1>2
  <2> QED
    BY <2>2, <2>3 DEF steps
<1>4. /\ DOMAIN d.tables = Known(Count(r))
      /\ \A i \in 1 .. Count(r) : d.tables[Created[i]] = At(old, r, i)
  BY DEF Fits
<1>5. ASSUME Alters(r) = 1
      PROVE  f[1] = Stepped(d, steps[1])
  BY <1>3, <1>5 DEF Runs
<1>6. CASE Alters(r) = 0
  <2>1. r \in 1 .. 14 /\ r \notin {1, 4, 6, 11}
    BY <1>6 DEF Alters
  <2>2. \A i \in 1 .. Count(r - 1) : d.tables[Created[i]] = At(old, r - 1, i)
    <3>1. ASSUME NEW i \in 1 .. Count(r - 1)
          PROVE  d.tables[Created[i]] = At(old, r - 1, i)
      <4>1. i \in 1 .. 33 /\ i \in 1 .. Count(r)
        BY <1>1
      <4> QED
        BY <1>4, <2>1, <4>1, AtBefore
    <3> QED
      BY <3>1
  <2>3. \A i \in Count(r - 1) + 1 .. Count(r) : d.tables[Created[i]] = Made[i]
    <3>1. ASSUME NEW i \in Count(r - 1) + 1 .. Count(r)
          PROVE  d.tables[Created[i]] = Made[i]
      <4>1. 4 <= Count(r - 1)
        BY <2>1, Counts
      <4>2. i # 2 /\ i \in 1 .. Count(r)
        BY <1>1, <4>1
      <4> QED
        BY <1>4, <2>1, <4>2, AtCreated
    <3> QED
      BY <3>1
  <2>4. \A i \in Count(r - 1) + 1 .. Count(r) :
           \A q \in d.tables[Created[i]].refs : q[2] \in Known(i) \cup Known(Count(r - 1))
    <3>1. \A i \in Count(r - 1) + 1 .. Count(r) : i \in 1 .. 33
      BY <1>1
    <3> QED
      BY <2>3, <3>1, TablesMade
  <2>5. \A i \in 1 .. k :
           \E index : /\ steps[0 + i] = drop(Created[Count(r) + 1 - i], index)
                      /\ index \subseteq d.tables[Created[Count(r) + 1 - i]].index
    <3>1. \A i \in 1 .. k : Count(r) + 1 - i \in Count(r - 1) + 1 .. Count(r)
      BY <1>1
    <3> QED
      BY <1>1, <1>2, <1>6, <2>3, <3>1
  <2>6. Undone(old, r, d, f[0 + k])
    <3> HIDE DEF steps
    <3>1. 0 \in Nat /\ k \in Nat /\ Runs(f, 0, 0 + k, steps)
      BY <1>3, <1>6
    <3>2. f[0] = d /\ k = Count(r) - Count(r - 1) /\ r \in 1 .. 14
      BY <1>1, <1>3, <2>1
    <3>3. IsDatabase(f[0]) /\ f[0].ok /\ DOMAIN f[0].tables = Known(Count(r))
      BY <1>4, <3>2
    <3> QED
      BY <2>2, <2>4, <2>5, <3>1, <3>2, <3>3, DropRest
  <2>7. e = f[0 + k] /\ Downgradable(r, d) /\ (r = 4 \/ old) = old
    BY <1>3, <1>6, <2>1 DEF Downgradable, Auth, Audit
  <2> QED
    BY <2>6, <2>7 DEF StepDown, Undone
<1>7. CASE r = 1
  <2>1. Count(1) = 4 /\ Count(0) = 0 /\ k = 4 /\ j = 4 /\ Alters(r) = 1
    BY <1>1, <1>7, Counts DEF Alters
  <2>2. steps[1] = alter(Created[2], unchange_2b)
        /\ \A i \in 1 .. 4 : steps[1 + i] = drop(Created[5 - i], {})
    BY <1>7, Placed DEF Revisions, downgrade_2b, unchange_2b, Created
  <2>3. f[1] = Stepped(d, alter(Created[2], unchange_2b))
    BY <1>5, <2>1, <2>2
  <2>4. /\ d.tables[Created[2]] \in {users_2b, WithoutLogin(users_2b)}
        /\ \A i \in {1, 3, 4} : d.tables[Created[i]] = Made[i]
    BY <1>4, <1>7, <2>1 DEF At, Hard, Users, AuditLogs
  <2>5. /\ Fitting(d.tables[Created[2]], unchange_2b)
        /\ Altered(d.tables[Created[2]], unchange_2b).refs = {}
    BY <2>4, Unchange2b
  <2>6. unchange_2b.refs = {} /\ unchange_2b.required = {} /\ unchange_2b.tighten = {}
    BY DEF unchange_2b, Same
  <2> HIDE DEF steps
  <2>7. AlteredAt(d, f[1], 4, 2, unchange_2b)
    <3>1. 4 \in 1 .. 33 /\ 2 \in 1 .. 4 /\ DOMAIN d.tables = Known(4)
      BY <1>4, <1>7, <2>1
    <3> QED
      BY <2>3, <2>5, <2>6, <3>1, AlterOne
  <2>8. /\ IsDatabase(f[1]) /\ f[1].ok
        /\ f[1].types = d.types /\ f[1].rows = d.rows
        /\ DOMAIN f[1].tables = Known(Count(r))
        /\ f[1].tables[Created[2]].refs = {}
        /\ \A i \in {1, 3, 4} : f[1].tables[Created[i]] = Made[i]
    BY <1>7, <2>1, <2>4, <2>5, <2>6, <2>7 DEF AlteredAt
  <2>9. \A i \in Count(r - 1) + 1 .. Count(r) :
           \A q \in f[1].tables[Created[i]].refs : q[2] \in Known(i) \cup Known(Count(r - 1))
    <3>1. \A i \in {1, 3, 4} : \A q \in Made[i].refs : q[2] \in Known(i)
      <4>1. {1, 3, 4} \subseteq 1 .. 33
        OBVIOUS
      <4> QED
        BY <4>1, TablesMade
    <3>2. \A i \in Count(r - 1) + 1 .. Count(r) : i = 2 \/ i \in {1, 3, 4}
      BY <1>7, <2>1
    <3> QED
      BY <2>8, <3>1, <3>2
  <2>10. \A i \in 1 .. k :
            \E index : /\ steps[1 + i] = drop(Created[Count(r) + 1 - i], index)
                       /\ index \subseteq f[1].tables[Created[Count(r) + 1 - i]].index
    BY <1>7, <2>1, <2>2
  <2>11. Undone(old, r, f[1], f[1 + k])
    <3>1. 1 \in Nat /\ k \in Nat /\ Runs(f, 1, 1 + k, steps)
      <4>1. Runs(f, 0, 5, steps) /\ 1 + k = 5
        BY <1>3, <2>1
      <4> QED
        BY <4>1 DEF Runs
    <3>2. \A i \in 1 .. Count(r - 1) : f[1].tables[Created[i]] = At(old, r - 1, i)
      BY <1>7, <2>1
    <3>3. r \in 1 .. 14
      BY <1>7
    <3> QED
      BY <1>1, <2>8, <2>9, <2>10, <3>1, <3>2, <3>3, DropRest
  <2>12. e = f[1 + k] /\ Downgradable(r, d) /\ (r = 4 \/ old) = old
    BY <1>3, <1>7, <2>1 DEF Downgradable, Auth, Audit
  <2> QED
    BY <2>8, <2>11, <2>12 DEF StepDown, Undone
<1>8. CASE r = 4
  <2>1. Count(r) = 9 /\ Count(r - 1) = 9 /\ r - 1 = 3 /\ k = 0 /\ Alters(r) = 1
    BY <1>1, <1>8, Counts DEF Alters
  <2>2. steps[1] = alter(Created[2], unchange_2e)
    BY <1>8, Placed DEF Revisions, downgrade_2e, unchange_2e, alter
  <2>3. f[1] = Stepped(d, alter(Created[2], unchange_2e)) /\ e = f[1]
    BY <1>3, <1>5, <2>1, <2>2
  <2>4. d.tables[Created[2]] = users_2e
    BY <1>4, <1>8, <2>1 DEF At, Hard, Users
  <2>5. /\ Fitting(d.tables[Created[2]], unchange_2e)
        /\ Altered(d.tables[Created[2]], unchange_2e) = WithoutLogin(users_2b)
    BY <2>4, Unchange2e
  <2>6. unchange_2e.refs = {} /\ unchange_2e.required # {}
    BY DEF unchange_2e, downgrade_2e, alter, Same
  <2> HIDE DEF steps
  <2>7. AlteredAt(d, e, 9, 2, unchange_2e)
    <3>1. 9 \in 1 .. 33 /\ 2 \in 1 .. 9 /\ DOMAIN d.tables = Known(9)
      BY <1>4, <1>8, <2>1
    <3> QED
      BY <2>3, <2>5, <2>6, <3>1, AlterOne
  <2>8. IsDatabase(e) /\ e.ok <=> Downgradable(r, d)
    BY <1>8, <2>6, <2>7, Placed DEF AlteredAt, Downgradable, Auth, Audit
  <2>9. ASSUME e.ok
        PROVE  Undone(TRUE, r, d, e)
    <3>1. ASSUME NEW i \in 1 .. 9
          PROVE  e.tables[Created[i]] = At(TRUE, 3, i)
      <4>1. CASE i = 2
        BY <2>5, <2>7, <2>9, <4>1 DEF AlteredAt, At, Hard, Users
      <4>2. CASE i # 2
        <5>1. e.tables[Created[i]] = d.tables[Created[i]]
          BY <2>7, <2>9, <4>2 DEF AlteredAt
        <5> QED
          BY <1>4, <1>8, <2>1, <4>2, <5>1 DEF At, Hard, AuditLogs
      <4> QED
        BY <4>1, <4>2
    <3>2. DOMAIN e.tables = Known(Count(r - 1))
      BY <2>1, <2>7, <2>9 DEF AlteredAt
    <3>3. Fits(TRUE, r - 1, e.tables)
      BY <2>1, <3>1, <3>2 DEF Fits
    <3>4. {Created[i] : i \in Count(r - 1) + 1 .. Count(r)} = {}
      BY <2>1
    <3> QED
      BY <2>7, <2>9, <3>3, <3>4 DEF AlteredAt, Undone
  <2>10. (r = 4 \/ old) = TRUE
    BY <1>8
  <2> QED
    BY <2>7, <2>8, <2>9, <2>10 DEF StepDown, AlteredAt
<1>9. CASE r = 11
  <2>1. Count(r) = 28 /\ Count(r - 1) = 28 /\ r - 1 = 10 /\ k = 0 /\ Alters(r) = 1
    BY <1>1, <1>9, Counts DEF Alters
  <2>2. steps[1] = alter(Created[11], unchange_8c6a)
    BY <1>9, Placed DEF Revisions, downgrade_8c6a, unchange_8c6a, alter
  <2>3. f[1] = Stepped(d, alter(Created[11], unchange_8c6a)) /\ e = f[1]
    BY <1>3, <1>5, <2>1, <2>2
  <2>4. d.tables[Created[11]] = audit_logs_8c6a
    BY <1>4, <1>9, <2>1 DEF At, Hard, AuditLogs
  <2>5. /\ Fitting(d.tables[Created[11]], unchange_8c6a)
        /\ Altered(d.tables[Created[11]], unchange_8c6a) = audit_logs
    BY <2>4, Unchange8c6a
  <2>6. unchange_8c6a.required # {} /\ \A q \in unchange_8c6a.refs : q[2] \in Known(28)
    <3>1. /\ unchange_8c6a.required # {}
          /\ unchange_8c6a.refs =
                To("users", {"user_id"}) \cup To("workspaces", {"workspace_id"})
      BY DEF unchange_8c6a, downgrade_8c6a, alter, Same
    <3> QED
      BY <3>1, Referenced, Placed DEF Known
  <2> HIDE DEF steps
  <2>7. AlteredAt(d, e, 28, 11, unchange_8c6a)
    <3>1. 28 \in 1 .. 33 /\ 11 \in 1 .. 28 /\ DOMAIN d.tables = Known(28)
      BY <1>4, <1>9, <2>1
    <3> QED
      BY <2>3, <2>5, <2>6, <3>1, AlterOne
  <2>8. IsDatabase(e) /\ e.ok <=> Downgradable(r, d)
    BY <1>9, <2>6, <2>7, Placed DEF AlteredAt, Downgradable, Auth, Audit
  <2>9. ASSUME e.ok
        PROVE  Undone(old, r, d, e)
    <3>1. ASSUME NEW i \in 1 .. 28
          PROVE  e.tables[Created[i]] = At(old, 10, i)
      <4>1. CASE i = 11
        BY <2>5, <2>7, <2>9, <4>1 DEF AlteredAt, At, Hard, AuditLogs
      <4>2. CASE i # 11
        <5>1. e.tables[Created[i]] = d.tables[Created[i]]
          BY <2>7, <2>9, <4>2 DEF AlteredAt
        <5> QED
          BY <1>4, <1>9, <2>1, <4>2, <5>1 DEF At, Hard, Users
      <4> QED
        BY <4>1, <4>2
    <3>2. Fits(old, r - 1, e.tables)
      BY <1>9, <2>1, <2>7, <2>9, <3>1 DEF AlteredAt, Fits
    <3> QED
      BY <1>9, <2>1, <2>7, <2>9, <3>2 DEF AlteredAt, Undone
  <2>10. (r = 4 \/ old) = old
    BY <1>9
  <2> QED
    BY <2>7, <2>8, <2>9, <2>10 DEF StepDown, AlteredAt
<1>10. CASE r = 6
  <2>1. /\ Count(r) = 19 /\ Count(r - 1) = 12 /\ r - 1 = 5
        /\ k = 7 /\ j = 19 /\ Alters(r) = 1
    BY <1>1, <1>10, Counts DEF Alters
  <2>2. steps[1] = alter(Created[2], unchange_6d96)
    BY <1>10, Placed DEF Revisions, downgrade_6d96, unchange_6d96
  <2>3. f[1] = Stepped(d, alter(Created[2], unchange_6d96))
    BY <1>5, <2>1, <2>2
  <2>4. d.tables[Created[2]] = users_6d96
    BY <1>4, <1>10, <2>1 DEF At, Hard, Users
  <2>5. /\ Fitting(d.tables[Created[2]], unchange_6d96)
        /\ Altered(d.tables[Created[2]], unchange_6d96) = users_2e
    BY <2>4, Unchange6d96
  <2>6. /\ unchange_6d96.refs = {} /\ unchange_6d96.required = {}
        /\ unchange_6d96.tighten = {}
    BY DEF unchange_6d96, Same
  <2> HIDE DEF steps
  <2>7. AlteredAt(d, f[1], 19, 2, unchange_6d96)
    <3>1. 19 \in 1 .. 33 /\ 2 \in 1 .. 19 /\ DOMAIN d.tables = Known(19)
      BY <1>4, <1>10, <2>1
    <3> QED
      BY <2>3, <2>5, <2>6, <3>1, AlterOne
  <2>8. /\ IsDatabase(f[1]) /\ f[1].ok
        /\ f[1].types = d.types /\ f[1].rows = d.rows
        /\ DOMAIN f[1].tables = Known(Count(r))
        /\ f[1].tables[Created[2]] = users_2e
        /\ \A i \in 1 .. 19 : i # 2 => f[1].tables[Created[i]] = d.tables[Created[i]]
    BY <1>10, <2>1, <2>5, <2>6, <2>7 DEF AlteredAt
  <2>9. ASSUME NEW i \in 1 .. 12
        PROVE  f[1].tables[Created[i]] = At(old, 5, i)
    <3>1. CASE i = 2
      BY <2>8, <3>1 DEF At, Hard, Users
    <3>2. CASE i # 2
      BY <1>4, <1>10, <2>1, <2>8, <3>2 DEF At, Hard, AuditLogs
    <3> QED
      BY <3>1, <3>2
  <2>10. ASSUME NEW i \in 13 .. 19
         PROVE  f[1].tables[Created[i]] = Made[i]
    BY <1>4, <1>10, <2>1, <2>8 DEF At, Hard, Users, AuditLogs
  <2>11. \A i \in Count(r - 1) + 1 .. Count(r) :
            \A q \in f[1].tables[Created[i]].refs : q[2] \in Known(i) \cup Known(Count(r - 1))
    <3>1. \A i \in 13 .. 19 : \A q \in Made[i].refs : q[2] \in Known(i)
      <4>1. 13 .. 19 \subseteq 1 .. 33
        OBVIOUS
      <4> QED
        BY <4>1, TablesMade
    <3>2. Count(r - 1) + 1 .. Count(r) = 13 .. 19
      BY <2>1
    <3> QED
      BY <2>10, <3>1, <3>2
  <2>12. \A i \in 1 .. k :
            \E index : /\ steps[1 + i] = drop(Created[Count(r) + 1 - i], index)
                       /\ index \subseteq f[1].tables[Created[Count(r) + 1 - i]].index
    <3>1. \A i \in 1 .. k : /\ Count(r) + 1 - i = 20 - i /\ j + 1 - i = 20 - i
                            /\ 20 - i \in 13 .. 19
      BY <2>1
    <3>2. \A i \in 1 .. k :
             \E index : /\ steps[1 + i] = drop(Created[20 - i], index)
                        /\ index \subseteq Made[20 - i].index
      BY <1>2, <2>1, <3>1
    <3> QED
      BY <2>10, <3>1, <3>2
  <2>13. Undone(old, r, f[1], f[1 + k])
    <3>1. 1 \in Nat /\ k \in Nat /\ Runs(f, 1, 1 + k, steps)
      <4>1. Runs(f, 0, 8, steps) /\ 1 + k = 8
        BY <1>3, <2>1
      <4> QED
        BY <4>1 DEF Runs
    <3>2. \A i \in 1 .. Count(r - 1) : f[1].tables[Created[i]] = At(old, r - 1, i)
      BY <1>10, <2>1, <2>9
    <3>3. r \in 1 .. 14
      BY <1>10
    <3> QED
      BY <1>1, <2>8, <2>11, <2>12, <3>1, <3>2, <3>3, DropRest
  <2>14. e = f[1 + k] /\ Downgradable(r, d) /\ (r = 4 \/ old) = old
    BY <1>3, <1>10, <2>1 DEF Downgradable, Auth, Audit
  <2> QED
    BY <2>8, <2>13, <2>14 DEF StepDown, Undone
<1>11. CASE r = 15
  <2>1. Count(r) = 33 /\ Count(r - 1) = 33 /\ r - 1 = 14 /\ k = 0 /\ Alters(r) = 9
    BY <1>1, <1>11, Counts DEF Alters
  <2>2. f[0] = d /\ Runs(f, 0, 9, steps) /\ e = f[9]
    BY <1>3, <2>1
  <2>3. /\ DOMAIN d.tables = Known(33)
        /\ \A i \in 1 .. 33 : d.tables[Created[i]] = At(old, 15, i)
    BY <1>4, <1>11, <2>1
  <2>4. \A i \in 1 .. 33 : At(old, 14, i) = Hard(old, 15, i)
    BY DEF At, Hard, Users, AuditLogs
  <2>5. \A n \in 1 .. 9 : Deletable(Hard(old, 15, Soft[n]))
    BY SoftTables DEF Hard, Users, Soft
  <2> DEFINE order == [n \in 1 .. 9 |-> Soft[10 - n]]
  <2>6. /\ order \in [1 .. 9 -> 1 .. 33]
        /\ \A n, m \in 1 .. 9 : order[n] = order[m] => n = m
        /\ \A i : (\E m \in 1 .. 9 : order[m] = i) <=> \E m \in 1 .. 9 : Soft[m] = i
    <3>1. \A n \in 1 .. 9 : 10 - n \in 1 .. 9 /\ 10 - (10 - n) = n /\ order[n] = Soft[10 - n]
      OBVIOUS
    <3>2. order \in [1 .. 9 -> 1 .. 33]
      BY SoftNames, <3>1
    <3>3. ASSUME NEW n \in 1 .. 9, NEW m \in 1 .. 9, order[n] = order[m]
          PROVE  n = m
      <4>1. 10 - n = 10 - m
        BY <3>1, <3>3, SoftNames
      <4> QED
        BY <4>1
    <3>4. ASSUME NEW m \in 1 .. 9
          PROVE  order[10 - m] = Soft[m] /\ 10 - m \in 1 .. 9
      BY <3>1
    <3> HIDE DEF order
    <3> QED
      BY <3>1, <3>2, <3>3, <3>4
  <2>7. ASSUME NEW n \in 1 .. 9
        PROVE  /\ steps[n] = alter(Created[order[n]], Hardening)
               /\ Fitting(d.tables[Created[order[n]]], Hardening)
    <3>1. 10 - n \in 1 .. 9 /\ order[n] = Soft[10 - n] /\ order[n] \in 1 .. 33
      BY <2>6
    <3>2. steps[n] = alter(SoftDeleted[10 - n], Hardening)
      BY <1>11, SoftNames DEF Revisions, downgrade_feb6, Hardening, SoftDeleted
    <3>3. d.tables[Created[order[n]]] = Softened(Hard(old, 15, Soft[10 - n]))
      BY <2>3, <3>1 DEF At
    <3>4. Fitting(d.tables[Created[order[n]]], Hardening)
      BY <2>5, <3>1, <3>3, SoftenEffect
    <3> QED
      BY <3>1, <3>2, <3>4, SoftNames
  <2> HIDE DEF steps, order
  <2>8. AlteredEach(d, e, order, Hardening)
    <3>1. Hardening \in {Softening, Hardening}
      OBVIOUS
    <3> HIDE DEF Hardening
    <3>2. /\ order \in [1 .. 9 -> 1 .. 33]
          /\ \A n, m \in 1 .. 9 : order[n] = order[m] => n = m
      BY <2>6
    <3>3. f[0] = d /\ Runs(f, 0, 9, steps) /\ DOMAIN d.tables = Known(33)
      BY <2>2, <2>3
    <3>4. AlteredEach(d, f[9], order, Hardening)
      BY <2>7, <3>1, <3>2, <3>3, AlterEach
    <3> QED
      BY <2>2, <3>4
  <2>9. ASSUME NEW i \in 1 .. 33
        PROVE  e.tables[Created[i]] = At(old, 14, i)
    <3>1. CASE \E m \in 1 .. 9 : Soft[m] = i
      <4>1. Deletable(Hard(old, 15, i))
        <5>1. PICK m \in 1 .. 9 : Soft[m] = i
          BY <3>1
        <5>2. Deletable(Hard(old, 15, Soft[m]))
          BY <2>5
        <5> QED
          BY <5>1, <5>2
      <4>2. e.tables[Created[i]] = Altered(Softened(Hard(old, 15, i)), Hardening)
        <5>1. \E m \in 1 .. 9 : order[m] = i
          BY <2>6, <3>1
        <5>2. d.tables[Created[i]] = Softened(Hard(old, 15, i))
          BY <2>3, <3>1 DEF At
        <5>3. e.tables[Created[i]] = Altered(d.tables[Created[i]], Hardening)
          BY <2>8, <5>1 DEF AlteredEach
        <5> QED
          BY <5>2, <5>3
      <4> QED
        BY <2>4, <4>1, <4>2, SoftenEffect
    <3>2. CASE ~ \E m \in 1 .. 9 : Soft[m] = i
      BY <2>3, <2>4, <2>6, <2>8, <3>2 DEF AlteredEach, At
    <3> QED
      BY <3>1, <3>2
  <2>10. Fits(old, r - 1, e.tables)
    <3>1. DOMAIN e.tables = Known(Count(r - 1))
      BY <2>1, <2>8 DEF AlteredEach
    <3> QED
      BY <2>1, <2>9, <3>1 DEF Fits
  <2>11. Undone(old, r, d, e)
    BY <1>11, <2>1, <2>8, <2>10 DEF AlteredEach, Undone
  <2>12. Downgradable(r, d) /\ (r = 4 \/ old) = old
    BY <1>11 DEF Downgradable, Auth, Audit
  <2> QED
    BY <2>11, <2>12 DEF StepDown, Undone
<1> QED
  <2>1. Alters(r) # 0 => r \in {1, 4, 6, 11, 15}
    BY DEF Alters
  <2> QED
    BY <1>6, <1>7, <1>8, <1>9, <1>10, <1>11, <2>1

-----------------------------------------------------------------------------
\* A program on a database where a step has failed does nothing.
LEMMA RunFailed ==
    ASSUME NEW d, d.ok = FALSE, NEW steps, Len(steps) \in Nat
    PROVE  Run(d, steps) = d
<1>1. PICK f : /\ f[0] = d
               /\ Runs(f, 0, Len(steps), steps)
               /\ Run(d, steps) = f[Len(steps)]
  BY RunSteps
<1>2. 0 \in Nat /\ 0 <= Len(steps) /\ f[0].ok = FALSE
  BY <1>1
<1>3. f[Len(steps)] = f[0]
  BY <1>1, <1>2, FailureStays
<1> QED
  BY <1>1, <1>3

\* Every program is a sequence of finitely many steps.
LEMMA ProgramsFinite ==
    ASSUME NEW r \in 1 .. 15
    PROVE  Len(Revisions[r].up) \in Nat /\ Len(Revisions[r].down) \in Nat
<1>1. PICK k \in Nat : k = Count(r) - Count(r - 1)
  BY CountGrows
<1>2. Alters(r) \in Nat
  BY DEF Alters
<1>3. /\ Builds(Revisions[r].up, Count(r - 1), Count(r) - Count(r - 1), Alters(r))
      /\ Removes(Revisions[r].down, Count(r), Count(r) - Count(r - 1), Alters(r))
  BY UpSteps, DownSteps
<1> QED
  BY <1>1, <1>2, <1>3 DEF Builds, Removes

\* The databases g[from .. k] of an upgrade, as Upgraded defines them.
UpgradeTrace(g, from, k, db) ==
    g = [n \in from .. k |->
            IF n = from THEN db ELSE Run(g[n - 1], Revisions[n].up)]

\* The databases g[from .. to] an upgrade goes through.
ClimbedBy(g, db, from, to) ==
    /\ g[from] = db
    /\ \A n \in from + 1 .. to : g[n] = Run(g[n - 1], Revisions[n].up)
    /\ Upgraded(db, from, to) = g[to]

\* run_migrations upgrades one revision at a time.
LEMMA UpgradeSteps ==
    ASSUME NEW db, NEW from \in 0 .. 15, NEW to \in from .. 15
    PROVE  \E g : ClimbedBy(g, db, from, to)
<1> DEFINE S == {k \in from .. to : \E g : UpgradeTrace(g, from, k, db)}
<1>1. from \in S
  <2> DEFINE h == [n \in from .. from |-> db]
  <2>1. UpgradeTrace(h, from, from, db)
    BY DEF UpgradeTrace
  <2> QED
    BY <2>1
<1>2. ASSUME NEW k \in from + 1 .. to, k - 1 \in S
      PROVE  k \in S
  <2>1. PICK g : UpgradeTrace(g, from, k - 1, db)
    BY <1>2
  <2> DEFINE h == [n \in from .. k |->
                      IF n = k THEN Run(g[k - 1], Revisions[k].up) ELSE g[n]]
  <2>2. UpgradeTrace(h, from, k, db)
    BY <2>1 DEF UpgradeTrace
  <2> HIDE DEF h
  <2> QED
    BY <2>2
<1>3. to \in S
  <2> HIDE DEF S
  <2>1. from \in Nat /\ to \in Nat /\ from <= to
    OBVIOUS
  <2>2. from .. to \subseteq S
    BY <1>1, <1>2, <2>1, Induction
  <2> QED
    BY <2>2
<1>4. PICK g : UpgradeTrace(g, from, to, db)
  BY <1>3
<1>5. Upgraded(db, from, to) = (CHOOSE h : UpgradeTrace(h, from, to, db))[to]
  BY DEF Upgraded, UpgradeTrace
<1>6. PICK h : UpgradeTrace(h, from, to, db) /\ Upgraded(db, from, to) = h[to]
  BY <1>4, <1>5
<1>7. h[from] = db /\ \A n \in from + 1 .. to : h[n] = Run(h[n - 1], Revisions[n].up)
  BY <1>6 DEF UpgradeTrace
<1> QED
  BY <1>6, <1>7 DEF ClimbedBy

\* The databases g[k .. from] of a downgrade, as Downgraded defines them.
DowngradeTrace(g, k, from, db) ==
    g = [n \in k .. from |->
            IF n = from THEN db ELSE Run(g[n + 1], Revisions[n + 1].down)]

\* The databases g[from], ..., g[to] a downgrade goes through.
DescendedBy(g, db, from, to) ==
    /\ g[from] = db
    /\ \A n \in to .. from - 1 : g[n] = Run(g[n + 1], Revisions[n + 1].down)
    /\ Downgraded(db, from, to) = g[to]

\* run_migrations downgrades one revision at a time.
LEMMA DowngradeSteps ==
    ASSUME NEW db, NEW from \in 0 .. 15, NEW to \in 0 .. from
    PROVE  \E g : DescendedBy(g, db, from, to)
<1> DEFINE S == {m \in 0 .. from - to : \E g : DowngradeTrace(g, from - m, from, db)}
<1>1. 0 \in S
  <2> DEFINE h == [n \in from .. from |-> db]
  <2>1. DowngradeTrace(h, from - 0, from, db)
    BY DEF DowngradeTrace
  <2> QED
    BY <2>1
<1>2. ASSUME NEW m \in 0 + 1 .. from - to, m - 1 \in S
      PROVE  m \in S
  <2> DEFINE k == from - m
  <2>1. PICK g : DowngradeTrace(g, k + 1, from, db)
    <3>1. from - (m - 1) = k + 1
      OBVIOUS
    <3> QED
      BY <1>2, <3>1
  <2> DEFINE h == [n \in k .. from |->
                      IF n = k THEN Run(g[k + 1], Revisions[k + 1].down) ELSE g[n]]
  <2>2. DowngradeTrace(h, k, from, db)
    BY <2>1 DEF DowngradeTrace
  <2> HIDE DEF h
  <2> QED
    BY <2>2
<1>3. from - to \in S
  <2> HIDE DEF S
  <2>1. PICK b \in Nat : b = from - to
    OBVIOUS
  <2>2. 0 \in Nat /\ 0 <= b /\ \A m \in 0 + 1 .. b : m - 1 \in S => m \in S
    BY <1>2, <2>1
  <2>3. 0 .. b \subseteq S
    BY <1>1, <2>2, Induction, Zenon
  <2> QED
    BY <2>1, <2>3
<1>4. PICK g : DowngradeTrace(g, to, from, db)
  <2>1. from - (from - to) = to
    OBVIOUS
  <2> QED
    BY <1>3, <2>1
<1>5. Downgraded(db, from, to) = (CHOOSE h : DowngradeTrace(h, to, from, db))[to]
  BY DEF Downgraded, DowngradeTrace
<1>6. PICK h : DowngradeTrace(h, to, from, db) /\ Downgraded(db, from, to) = h[to]
  BY <1>4, <1>5
<1>7. h[from] = db /\ \A n \in to .. from - 1 : h[n] = Run(h[n + 1], Revisions[n + 1].down)
  BY <1>6 DEF DowngradeTrace
<1> QED
  BY <1>6, <1>7 DEF DescendedBy

-----------------------------------------------------------------------------
\* Later revisions have no fewer tables.
LEMMA CountMonotone ==
    ASSUME NEW a \in 0 .. 15, NEW b \in a .. 15
    PROVE  /\ Count(a) \in 0 .. 33
           /\ Count(b) \in 0 .. 33
           /\ Count(a) <= Count(b)
  BY Counts

\* The types of two stretches of tables are those of the one and of the other,
\* and no type is created in both.
LEMMA TypesSplit ==
    ASSUME NEW a \in 0 .. 33, NEW b \in a .. 33, NEW c \in b .. 33
    PROVE  /\ NewTypes(a, c) = NewTypes(a, b) \cup NewTypes(b, c)
           /\ NewTypes(a, b) \cap NewTypes(b, c) = {}
<1>1. a + 1 .. c = (a + 1 .. b) \cup (b + 1 .. c)
  OBVIOUS
<1>2. NewTypes(a, c) = NewTypes(a, b) \cup NewTypes(b, c)
  BY <1>1 DEF NewTypes
<1>3. ASSUME NEW i \in a + 1 .. b, NEW m \in b + 1 .. c
      PROVE  Made[i].types \cap Made[m].types = {}
  <2>1. i \in 1 .. 33 /\ m \in 1 .. 33 /\ i # m
    OBVIOUS
  <2> QED
    BY <2>1, TablesMade
<1> QED
  BY <1>2, <1>3 DEF NewTypes

\* What can refuse an upgrade from one revision to a later one.
Climbable(from, to, d) ==
    /\ d.types \cap NewTypes(Count(from), Count(to)) = {}
    /\ ~ ("users" \in d.rows /\ Crossed(Auth, from, to))
    /\ ~ ("audit_logs" \in d.rows /\ Crossed(Audit, from, to))

\* What an upgrade makes of a database d.
Climbed(old, from, to, d, e) ==
    /\ IsDatabase(e)
    /\ e.ok <=> Climbable(from, to, d)
    /\ e.ok => /\ e.rows = d.rows
               /\ e.types = d.types \cup NewTypes(Count(from), Count(to))
               /\ Fits(old, to, e.tables)

\* An upgrade over any number of revisions, by induction on them.
LEMMA Upgrades ==
    ASSUME NEW d, IsDatabase(d), d.ok, NEW from \in 0 .. 15, NEW to \in from .. 15,
           NEW old \in BOOLEAN, from = 0 => old = FALSE, Fits(old, from, d.tables)
    PROVE  Climbed(old, from, to, d, Upgraded(d, from, to))
<1>1. PICK g : ClimbedBy(g, d, from, to)
  BY UpgradeSteps
<1> USE DEF ClimbedBy
<1> DEFINE S == {n \in from .. to : Climbed(old, from, n, d, g[n])}
<1>2. from \in S
  <2>1. NewTypes(Count(from), Count(from)) = {}
    BY CountMonotone DEF NewTypes
  <2> QED
    BY <1>1, <2>1 DEF Climbed, Climbable, Crossed, Auth, Audit
<1>3. ASSUME NEW n \in from + 1 .. to, n - 1 \in S
      PROVE  n \in S
  <2> DEFINE e == g[n - 1]
             new == NewTypes(Count(n - 1), Count(n))
  <2>1. Climbed(old, from, n - 1, d, e) /\ n \in 1 .. 15
    BY <1>3
  <2>2. g[n] = Run(e, Revisions[n].up)
    BY <1>1
  <2>3. /\ NewTypes(Count(from), Count(n)) = NewTypes(Count(from), Count(n - 1)) \cup new
        /\ NewTypes(Count(from), Count(n - 1)) \cap new = {}
    <3>1. PICK a \in 0 .. 33, b \in 0 .. 33, c \in 0 .. 33 :
             a = Count(from) /\ b = Count(n - 1) /\ c = Count(n) /\ a <= b /\ b <= c
      <4>1. PICK m \in 0 .. 15 : m = n - 1 /\ m \in from .. 15 /\ n \in m .. 15
        OBVIOUS
      <4>2. Count(from) \in 0 .. 33 /\ Count(m) \in 0 .. 33 /\ Count(from) <= Count(m)
        BY <4>1, CountMonotone
      <4>3. Count(n) \in 0 .. 33 /\ Count(m) <= Count(n)
        BY <4>1, CountMonotone
      <4> QED
        BY <4>1, <4>2, <4>3
    <3>2. /\ NewTypes(a, c) = NewTypes(a, b) \cup NewTypes(b, c)
          /\ NewTypes(a, b) \cap NewTypes(b, c) = {}
      <4>1. b \in a .. 33 /\ c \in b .. 33
        BY <3>1
      <4> QED
        BY <4>1, TypesSplit
    <3> QED
      BY <3>1, <3>2
  <2>4. /\ Crossed(Auth, from, n) <=> Crossed(Auth, from, n - 1) \/ n = Auth
        /\ Crossed(Audit, from, n) <=> Crossed(Audit, from, n - 1) \/ n = Audit
    BY DEF Crossed, Auth, Audit
  <2> HIDE DEF new
  <2>5. CASE e.ok
    <3>1. /\ IsDatabase(e)
          /\ Fits(old, n - 1, e.tables)
          /\ e.rows = d.rows
          /\ e.types = d.types \cup NewTypes(Count(from), Count(n - 1))
          /\ Climbable(from, n - 1, d)
      BY <2>1, <2>5 DEF Climbed
    <3> HIDE DEF e
    <3>2. StepUp(old, n, e, g[n])
      BY <2>1, <2>2, <2>5, <3>1, UpStep
    <3>3. Upgradable(n, e) <=> Climbable(from, n, d)
      BY <2>3, <2>4, <3>1 DEF Upgradable, Climbable, new
    <3>4. (IF n = 1 THEN FALSE ELSE old) = old
      <4>1. n = 1 => from = 0
        OBVIOUS
      <4> QED
        BY <4>1
    <3>5. ASSUME g[n].ok
          PROVE  /\ g[n].rows = d.rows
                 /\ g[n].types = d.types \cup NewTypes(Count(from), Count(n))
                 /\ Fits(old, n, g[n].tables)
      BY <2>3, <3>1, <3>2, <3>4, <3>5 DEF StepUp, new
    <3> QED
      BY <3>2, <3>3, <3>5 DEF StepUp, Climbed
  <2>6. CASE ~ e.ok
    <3>1. e.ok = FALSE /\ IsDatabase(e) /\ ~ Climbable(from, n - 1, d)
      BY <2>1, <2>6 DEF Climbed, IsDatabase
    <3>2. Len(Revisions[n].up) \in Nat
      BY <2>1, ProgramsFinite
    <3>3. g[n] = e
      BY <2>2, <3>1, <3>2, RunFailed
    <3>4. ~ Climbable(from, n, d)
      BY <2>3, <2>4, <3>1 DEF Climbable
    <3> QED
      BY <3>1, <3>3, <3>4 DEF Climbed
  <2> QED
    BY <2>5, <2>6
<1>4. from .. to \subseteq S
  <2> HIDE DEF S
  <2>1. from \in Nat /\ to \in Nat /\ from <= to
    OBVIOUS
  <2> QED
    BY <1>2, <1>3, <2>1, Induction
<1>5. Climbed(old, from, to, d, g[to])
  BY <1>4
<1> QED
  BY <1>1, <1>5

-----------------------------------------------------------------------------
\* What can refuse a downgrade from one revision to an earlier one.
Descendable(from, to, d) ==
    /\ ~ ("users" \in d.rows /\ Crossed(Auth, to, from))
    /\ ~ ("audit_logs" \in d.rows /\ Crossed(Audit, to, from))

\* The tables created after one revision and up to another.
Later(to, from) == {Created[i] : i \in Count(to) + 1 .. Count(from)}

\* What a downgrade makes of a database d.
Descended(from, to, d, e) ==
    /\ IsDatabase(e)
    /\ e.ok <=> Descendable(from, to, d)
    /\ e.ok => /\ e.rows = d.rows \ Later(to, from)
               /\ e.types = d.types
               /\ \E old \in BOOLEAN : Fits(old, to, e.tables)

\* The tables of two stretches of revisions are those of the one and of the other.
LEMMA LaterSplit ==
    ASSUME NEW a \in 0 .. 15, NEW b \in a .. 15, NEW c \in b .. 15
    PROVE  Later(a, c) = Later(a, b) \cup Later(b, c)
<1>1. /\ Count(a) \in 0 .. 33 /\ Count(b) \in 0 .. 33 /\ Count(c) \in 0 .. 33
      /\ Count(a) <= Count(b) /\ Count(b) <= Count(c)
  <2>1. c \in a .. 15 /\ b \in 0 .. 15
    OBVIOUS
  <2> QED
    BY <2>1, CountMonotone
<1>2. Count(a) + 1 .. Count(c) = (Count(a) + 1 .. Count(b)) \cup (Count(b) + 1 .. Count(c))
  BY <1>1
<1> QED
  BY <1>2 DEF Later

\* The tables of a revision are those of an earlier one and those created since.
LEMMA LaterTables ==
    ASSUME NEW a \in 0 .. 15, NEW b \in a .. 15
    PROVE  /\ Known(Count(b)) = Known(Count(a)) \cup Later(a, b)
           /\ Known(Count(a)) \cap Later(a, b) = {}
<1>1. Count(a) \in 0 .. 33 /\ Count(b) \in 0 .. 33 /\ Count(a) <= Count(b)
  BY CountMonotone
<1>2. Known(Count(b)) = Known(Count(a)) \cup Later(a, b)
  <2>1. 1 .. Count(b) = (1 .. Count(a)) \cup (Count(a) + 1 .. Count(b))
    BY <1>1
  <2> QED
    BY <2>1 DEF Known, Later
<1>3. ASSUME NEW i \in 1 .. Count(a), NEW m \in Count(a) + 1 .. Count(b)
      PROVE  Created[i] # Created[m]
  <2>1. i \in 1 .. 33 /\ m \in 1 .. 33 /\ i # m
    BY <1>1
  <2> QED
    BY <2>1, CreatedOnce
<1> QED
  BY <1>2, <1>3 DEF Known, Later

\* The users and the audit logs are older than the revisions their rows block.
LEMMA BlockersEarly ==
    /\ \A from \in 4 .. 15 : "users" \notin Later(4, from)
    /\ \A from \in 11 .. 15 : "audit_logs" \notin Later(11, from)
<1>1. "users" \in Known(Count(4)) /\ "audit_logs" \in Known(Count(11))
  BY Counts, Placed DEF Known
<1> QED
  BY <1>1, LaterTables

\* A downgrade over any number of revisions, by induction on them.
LEMMA Downgrades ==
    ASSUME NEW d, IsDatabase(d), d.ok, NEW from \in 0 .. 15, NEW to \in 0 .. from,
           \E old \in BOOLEAN : Fits(old, from, d.tables)
    PROVE  Descended(from, to, d, Downgraded(d, from, to))
<1>1. PICK g : DescendedBy(g, d, from, to)
  BY DowngradeSteps
<1> USE DEF DescendedBy
<1> DEFINE S == {m \in 0 .. from - to : Descended(from, from - m, d, g[from - m])}
<1>2. 0 \in S
  <2>1. Later(from, from) = {}
    BY CountMonotone DEF Later
  <2>2. from - 0 = from
    OBVIOUS
  <2> QED
    BY <1>1, <2>1, <2>2 DEF Descended, Descendable, Crossed, Auth, Audit
<1>3. ASSUME NEW m \in 0 + 1 .. from - to, m - 1 \in S
      PROVE  m \in S
  <2>1. PICK r \in 1 .. 15 : /\ r = from - (m - 1) /\ r - 1 = from - m
                             /\ r \in 1 .. from /\ r - 1 \in to .. from - 1
    OBVIOUS
  <2> DEFINE e == g[r]
             h == g[r - 1]
  <2>2. Descended(from, r, d, e)
    BY <1>3, <2>1
  <2>3. h = Run(e, Revisions[r].down)
    <3>1. r - 1 + 1 = r
      OBVIOUS
    <3> QED
      BY <1>1, <2>1, <3>1
  <2>4. Later(r - 1, from) = Later(r - 1, r) \cup Later(r, from)
    <3>1. r - 1 \in 0 .. 15 /\ r \in r - 1 .. 15 /\ from \in r .. 15
      BY <2>1
    <3> QED
      BY <3>1, LaterSplit
  <2>5. /\ Crossed(Auth, r - 1, from) <=> Crossed(Auth, r, from) \/ r = Auth
        /\ Crossed(Audit, r - 1, from) <=> Crossed(Audit, r, from) \/ r = Audit
    BY <2>1 DEF Crossed, Auth, Audit
  <2>6. CASE e.ok
    <3>1. /\ IsDatabase(e)
          /\ e.rows = d.rows \ Later(r, from)
          /\ e.types = d.types
          /\ Descendable(from, r, d)
      BY <2>2, <2>6 DEF Descended
    <3>2. PICK old \in BOOLEAN : Fits(old, r, e.tables)
      BY <2>2, <2>6 DEF Descended
    <3> HIDE DEF e, h
    <3>3. StepDown(old, r, e, h)
      BY <2>1, <2>3, <2>6, <3>1, <3>2, DownStep
    <3>4. Downgradable(r, e) <=> Descendable(from, r - 1, d)
      <4>1. r = Auth => "users" \notin Later(r, from)
        BY <2>1, BlockersEarly DEF Auth
      <4>2. r = Audit => "audit_logs" \notin Later(r, from)
        BY <2>1, BlockersEarly DEF Audit
      <4> QED
        BY <2>5, <3>1, <4>1, <4>2 DEF Downgradable, Descendable
    <3>5. ASSUME h.ok
          PROVE  /\ h.rows = d.rows \ Later(r - 1, from)
                 /\ h.types = d.types
                 /\ \E old2 \in BOOLEAN : Fits(old2, r - 1, h.tables)
      <4>1. Undone(r = 4 \/ old, r, e, h)
        BY <3>3, <3>5 DEF StepDown
      <4>2. h.types = e.types /\ h.rows = e.rows \ Later(r - 1, r)
        BY <4>1 DEF Undone, Later
      <4>3. PICK old2 \in BOOLEAN : old2 = (r = 4 \/ old)
        OBVIOUS
      <4>4. Fits(old2, r - 1, h.tables)
        BY <4>1, <4>3 DEF Undone
      <4> QED
        BY <2>4, <3>1, <4>2, <4>4
    <3>6. Descended(from, r - 1, d, h)
      BY <3>3, <3>4, <3>5 DEF StepDown, Descended
    <3> QED
      BY <2>1, <3>6 DEF h
  <2>7. CASE ~ e.ok
    <3>1. e.ok = FALSE /\ IsDatabase(e) /\ ~ Descendable(from, r, d)
      BY <2>2, <2>7 DEF Descended, IsDatabase
    <3>2. Len(Revisions[r].down) \in Nat
      BY <2>1, ProgramsFinite
    <3>3. h = e
      BY <2>3, <3>1, <3>2, RunFailed
    <3>4. ~ Descendable(from, r - 1, d)
      BY <2>5, <3>1 DEF Descendable
    <3>5. Descended(from, r - 1, d, h)
      BY <3>1, <3>3, <3>4 DEF Descended
    <3> QED
      BY <2>1, <3>5
  <2> QED
    BY <2>6, <2>7
<1>4. from - to \in S
  <2> HIDE DEF S
  <2>1. PICK b \in Nat : b = from - to
    OBVIOUS
  <2>2. 0 \in Nat /\ 0 <= b /\ \A m \in 0 + 1 .. b : m - 1 \in S => m \in S
    BY <1>3, <2>1
  <2>3. 0 .. b \subseteq S
    BY <1>2, <2>2, Induction, Zenon
  <2> QED
    BY <2>1, <2>3
<1>5. from - (from - to) = to
  OBVIOUS
<1>6. Descended(from, to, d, g[to])
  BY <1>4, <1>5
<1> QED
  BY <1>1, <1>6

-----------------------------------------------------------------------------
\* The inductive invariant: the tables are those of the revision, the types of its
\* tables are there, and others only of tables that were created once; rows are
\* in tables.  RevisionFixesSchema alone says nothing of the types a downgrade
\* leaves behind.
IInv ==
    /\ revision \in 0 .. 15
    /\ \E old \in BOOLEAN : /\ revision = 0 => old = FALSE
                            /\ Fits(old, revision, tables)
    /\ NewTypes(0, Count(revision)) \subseteq types
    /\ types \subseteq NewTypes(0, 33)
    /\ rows \subseteq DOMAIN tables

\* There are fifteen revisions.
LEMMA LastRevision == HeadRevision = 15
  BY DEF HeadRevision, Revisions

\* Before the first revision there are no users to have lost an index.
LEMMA NothingYet ==
    ASSUME NEW old, NEW new, NEW t, Fits(old, 0, t)
    PROVE  Fits(new, 0, t)
  BY Counts DEF Fits

\* A new database can be upgraded to any revision, and has its tables and types.
LEMMA ChainIs ==
    ASSUME NEW r \in 0 .. 15
    PROVE  /\ Chain[r].types = NewTypes(0, Count(r))
           /\ Fits(FALSE, r, Chain[r].tables)
<1>1. /\ IsDatabase(Empty) /\ Empty.ok
      /\ Empty.types = {} /\ Empty.rows = {} /\ DOMAIN Empty.tables = {}
  BY DEF IsDatabase, Empty
<1>2. Count(0) = 0 /\ Known(0) = {} /\ 1 .. Count(0) = {}
  BY Counts DEF Known
<1>3. Fits(FALSE, 0, Empty.tables)
  <2> HIDE DEF Empty
  <2> QED
    BY <1>1, <1>2 DEF Fits
<1>4. Climbed(FALSE, 0, r, Empty, Upgraded(Empty, 0, r))
  <2>1. 0 \in 0 .. 15 /\ r \in 0 .. 15 /\ FALSE \in BOOLEAN /\ (0 = 0 => FALSE = FALSE)
    OBVIOUS
  <2> HIDE DEF Empty
  <2> QED
    BY <1>1, <1>3, <2>1, Upgrades
<1>5. Climbable(0, r, Empty)
  BY <1>1 DEF Climbable
<1>6. Chain[r] = Upgraded(Empty, 0, r)
  BY LastRevision DEF Chain
<1> QED
  BY <1>1, <1>2, <1>4, <1>5, <1>6 DEF Climbed

\* The state, taken as a database.
LEMMA DatabaseIs ==
    /\ IsDatabase(Database)
    /\ Database.ok
    /\ Database.tables = tables
    /\ Database.types = types
    /\ Database.rows = rows
  BY DEF IsDatabase, Database

\* What a committed alembic upgrade does to the state.
LEMMA UpgradeEffect ==
    ASSUME IInv, NEW to \in 0 .. 15, to > revision, upgrade(to)
    PROVE  /\ revision' = to
           /\ rows' = rows
           /\ types' = types \cup NewTypes(Count(revision), Count(to))
           /\ Climbable(revision, to, Database)
           /\ \E old \in BOOLEAN : /\ revision = 0 => old = FALSE
                                   /\ Fits(old, revision, tables)
                                   /\ Fits(old, to, tables')
<1>1. PICK d : d = Database
  OBVIOUS
<1>2. PICK from \in 0 .. 15 : from = revision
  BY DEF IInv
<1>3. PICK old \in BOOLEAN : (revision = 0 => old = FALSE) /\ Fits(old, revision, tables)
  BY DEF IInv
<1>4. PICK e : e = Upgraded(d, from, to)
  OBVIOUS
<1>5. to \in from .. 15
  BY <1>2
<1>6. /\ IsDatabase(d) /\ d.ok /\ d.tables = tables /\ d.types = types /\ d.rows = rows
  BY <1>1, DatabaseIs
<1>7. Climbed(old, from, to, d, e)
  <2>1. (from = 0 => old = FALSE) /\ Fits(old, from, d.tables)
    BY <1>2, <1>3, <1>6
  <2>2. Climbed(old, from, to, d, Upgraded(d, from, to))
    BY <1>5, <1>6, <2>1, Upgrades
  <2> QED
    BY <1>4, <2>2
<1>8. Committed(e, to)
  BY <1>1, <1>2, <1>4 DEF upgrade
<1> QED
  BY <1>1, <1>2, <1>3, <1>6, <1>7, <1>8 DEF Committed, Climbed

\* What a committed alembic downgrade does to the state.
LEMMA DowngradeEffect ==
    ASSUME IInv, NEW to \in 0 .. 15, to < revision, downgrade(to)
    PROVE  /\ revision' = to
           /\ rows' = rows \cap DOMAIN tables'
           /\ types' = types
           /\ \E old \in BOOLEAN : /\ to = 0 => old = FALSE
                                   /\ Fits(old, to, tables')
<1>1. PICK d : d = Database
  OBVIOUS
<1>2. PICK from \in 0 .. 15 : from = revision
  BY DEF IInv
<1>3. PICK e : e = Downgraded(d, from, to)
  OBVIOUS
<1>4. to \in 0 .. from
  BY <1>2
<1>5. /\ IsDatabase(d) /\ d.ok /\ d.tables = tables /\ d.types = types /\ d.rows = rows
  BY <1>1, DatabaseIs
<1>6. \E old \in BOOLEAN : Fits(old, from, d.tables)
  BY <1>2, <1>5 DEF IInv
<1>7. Descended(from, to, d, e)
  <2>1. Descended(from, to, d, Downgraded(d, from, to))
    BY <1>4, <1>5, <1>6, Downgrades
  <2> QED
    BY <1>3, <2>1
<1>8. Committed(e, to)
  BY <1>1, <1>2, <1>3 DEF downgrade
<1>9. /\ revision' = to /\ tables' = e.tables /\ types' = d.types
      /\ rows' = d.rows \ Later(to, from)
  BY <1>7, <1>8 DEF Committed, Descended
<1>10. PICK old \in BOOLEAN : Fits(old, to, tables')
  BY <1>7, <1>8, <1>9 DEF Committed, Descended
<1>11. \E new \in BOOLEAN : (to = 0 => new = FALSE) /\ Fits(new, to, tables')
  <2>1. to = 0 => Fits(FALSE, to, tables')
    <3>1. PICK t : t = tables'
      OBVIOUS
    <3> QED
      BY <1>10, <3>1, NothingYet
  <2> QED
    BY <1>10, <2>1
<1>12. DOMAIN tables' = Known(Count(to))
  BY <1>10 DEF Fits
<1>13. DOMAIN tables = Known(Count(from))
  BY <1>2 DEF IInv, Fits
<1>14. /\ Known(Count(from)) = Known(Count(to)) \cup Later(to, from)
       /\ Known(Count(to)) \cap Later(to, from) = {}
  <2>1. from \in to .. 15
    BY <1>4
  <2> QED
    BY <2>1, LaterTables
<1>15. rows \subseteq DOMAIN tables
  BY DEF IInv
<1> QED
  BY <1>5, <1>9, <1>11, <1>12, <1>13, <1>14, <1>15

\* An empty database satisfies the invariant.
LEMMA InitIInv == Init => IInv
<1> SUFFICES ASSUME Init
             PROVE  IInv
  OBVIOUS
<1>1. /\ revision = 0 /\ DOMAIN tables = {} /\ types = {} /\ rows = {}
  BY DEF Init, Empty
<1>2. /\ Count(0) = 0 /\ 1 .. Count(0) = {}
      /\ Known(0) = {} /\ NewTypes(0, 0) = {}
  BY Counts DEF Known, NewTypes
<1>3. Fits(FALSE, 0, tables)
  BY <1>1, <1>2 DEF Fits
<1>4. \E old \in BOOLEAN : (revision = 0 => old = FALSE) /\ Fits(old, revision, tables)
  BY <1>1, <1>3
<1>5. NewTypes(0, Count(revision)) = {}
  BY <1>1, <1>2
<1> QED
  BY <1>1, <1>4, <1>5 DEF IInv

\* Every upgrade, downgrade, insert and delete keeps the invariant.
LEMMA NextIInv == IInv /\ [Next]_vars => IInv'
<1> SUFFICES ASSUME IInv, [Next]_vars
             PROVE  IInv'
  OBVIOUS
<1>1. ASSUME NEW to \in 0 .. HeadRevision, to > revision, upgrade(to)
      PROVE  IInv'
  <2>1. to \in 0 .. 15
    BY LastRevision
  <2>2. /\ revision' = to
        /\ rows' = rows
        /\ types' = types \cup NewTypes(Count(revision), Count(to))
        /\ \E old \in BOOLEAN : /\ revision = 0 => old = FALSE
                                /\ Fits(old, revision, tables)
                                /\ Fits(old, to, tables')
    BY <1>1, <2>1, UpgradeEffect
  <2>3. PICK from \in 0 .. 15 : from = revision
    BY DEF IInv
  <2>4. PICK a \in 0 .. 33, b \in 0 .. 33 : a = Count(from) /\ b = Count(to) /\ a <= b
    <3>1. to \in from .. 15
      BY <1>1, <2>1, <2>3
    <3> QED
      BY <2>1, <3>1, CountMonotone
  <2>5. /\ NewTypes(0, b) = NewTypes(0, a) \cup NewTypes(a, b)
        /\ NewTypes(0, 33) = NewTypes(0, b) \cup NewTypes(b, 33)
    <3>1. 0 \in 0 .. 33 /\ b \in a .. 33 /\ 33 \in b .. 33
      BY <2>4
    <3>2. NewTypes(0, b) = NewTypes(0, a) \cup NewTypes(a, b)
      BY <3>1, TypesSplit, SMTT(20)
    <3>3. NewTypes(0, 33) = NewTypes(0, b) \cup NewTypes(b, 33)
      <4>1. b \in 0 .. 33
        OBVIOUS
      <4> QED
        BY <3>1, <4>1, TypesSplit, SMTT(20)
    <3> QED
      BY <3>2, <3>3
  <2>6. NewTypes(0, a) \subseteq types /\ types \subseteq NewTypes(0, 33)
    BY <2>3, <2>4 DEF IInv
  <2>7. /\ NewTypes(0, Count(revision')) \subseteq types'
        /\ types' \subseteq NewTypes(0, 33)
    BY <2>2, <2>3, <2>4, <2>5, <2>6
  <2>8. DOMAIN tables \subseteq DOMAIN tables'
    <3>1. DOMAIN tables = Known(a) /\ DOMAIN tables' = Known(b)
      BY <2>2, <2>3, <2>4 DEF Fits
    <3> QED
      BY <2>4, <3>1 DEF Known
  <2>9. \E old \in BOOLEAN : (revision' = 0 => old = FALSE) /\ Fits(old, revision', tables')
    BY <1>1, <2>1, <2>2, <2>3
  <2> QED
    BY <2>1, <2>2, <2>7, <2>8, <2>9 DEF IInv
<1>2. ASSUME NEW to \in 0 .. HeadRevision, to < revision, downgrade(to)
      PROVE  IInv'
  <2>1. to \in 0 .. 15
    BY LastRevision
  <2>2. /\ revision' = to
        /\ rows' = rows \cap DOMAIN tables'
        /\ types' = types
        /\ \E old \in BOOLEAN : /\ to = 0 => old = FALSE
                                /\ Fits(old, to, tables')
    BY <1>2, <2>1, DowngradeEffect
  <2>3. PICK from \in 0 .. 15 : from = revision
    BY DEF IInv
  <2>4. PICK a \in 0 .. 33, b \in 0 .. 33 : a = Count(to) /\ b = Count(from) /\ a <= b
    <3>1. from \in to .. 15
      BY <1>2, <2>1, <2>3
    <3> QED
      BY <2>1, <3>1, CountMonotone
  <2>5. NewTypes(0, a) \subseteq NewTypes(0, b)
    BY <2>4 DEF NewTypes
  <2>6. NewTypes(0, b) \subseteq types /\ types \subseteq NewTypes(0, 33)
    BY <2>3, <2>4 DEF IInv
  <2> QED
    BY <2>1, <2>2, <2>4, <2>5, <2>6 DEF IInv
<1>3. ASSUME NEW t \in Stored, insert(t)
      PROVE  IInv'
  BY <1>3 DEF IInv, insert
<1>4. ASSUME NEW t \in Stored, delete(t)
      PROVE  IInv'
  BY <1>4 DEF IInv, delete
<1>5. CASE UNCHANGED vars
  BY <1>5 DEF IInv, vars
<1> QED
  BY <1>1, <1>2, <1>3, <1>4, <1>5 DEF Next

\* In every state of every order of upgrades, downgrades and rows the tables are
\* those of the revision alembic_version names, whatever tables hold rows.
THEOREM InductiveInvariant == Spec => []IInv
  BY InitIInv, NextIInv, PTL DEF Spec

-----------------------------------------------------------------------------
\* The tables of a revision are those a new database gets from upgrade(), but for
\* the index on last_login.
LEMMA SchemaFromIInv == IInv => RevisionFixesSchema
<1> SUFFICES ASSUME IInv
             PROVE  RevisionFixesSchema
  OBVIOUS
<1>1. PICK r \in 0 .. 15 : r = revision
  BY DEF IInv
<1>2. PICK old \in BOOLEAN : Fits(old, r, tables)
  BY <1>1 DEF IInv
<1>3. PICK chain : chain = Chain[r].tables
  OBVIOUS
<1>4. Fits(FALSE, r, chain)
  BY <1>3, ChainIs
<1>5. DOMAIN tables = Known(Count(r)) /\ DOMAIN chain = Known(Count(r))
  BY <1>2, <1>4 DEF Fits
<1>6. Count(r) \in 0 .. 33
  <2>1. r \in r .. 15
    OBVIOUS
  <2> QED
    BY <2>1, CountMonotone
<1>7. ASSUME NEW t \in DOMAIN tables
      PROVE  \/ tables[t] = chain[t]
             \/ /\ t = "users"
                /\ revision < Auth
                /\ tables[t] = [chain[t] EXCEPT !.index = @ \ {{"last_login"}}]
  <2>1. PICK i \in 1 .. Count(r) : t = Created[i]
    BY <1>5 DEF Known
  <2>2. tables[t] = At(old, r, i) /\ chain[t] = At(FALSE, r, i)
    BY <1>2, <1>4, <2>1 DEF Fits
  <2>3. CASE i = 2 /\ r < 4 /\ old
    <3>1. tables[t] = WithoutLogin(users_2b) /\ chain[t] = users_2b
      BY <2>2, <2>3 DEF At, Hard, Users
    <3> QED
      BY <1>1, <2>1, <2>3, <3>1, Placed DEF WithoutLogin, Auth
  <2>4. CASE ~ (i = 2 /\ r < 4 /\ old)
    <3>1. Hard(old, r, i) = Hard(FALSE, r, i)
      BY <2>4 DEF Hard, Users
    <3> QED
      BY <2>2, <3>1 DEF At
  <2> QED
    BY <2>3, <2>4
<1> QED
  BY <1>1, <1>3, <1>5, <1>7 DEF RevisionFixesSchema

\* Whatever way up and down the revisions of alembic/versions a database went, its
\* schema is that of its revision, but for the one index downgrade of 2e forgets.
THEOREM RevisionFixesSchemaHolds == Spec => []RevisionFixesSchema
  BY InductiveInvariant, SchemaFromIInv, PTL

\* The types that Chain creates on the way are those of the tables in between.
LEMMA UpgradesFromIInv == IInv => WhatBlocksUpgrades
<1> SUFFICES ASSUME IInv, NEW to \in revision + 1 .. HeadRevision
             PROVE  Upgraded(Database, revision, to).ok <=>
                       /\ types \cap (Chain[to].types \ Chain[revision].types) = {}
                       /\ ~("users" \in rows /\ Crossed(Auth, revision, to))
                       /\ ~("audit_logs" \in rows /\ Crossed(Audit, revision, to))
  BY DEF WhatBlocksUpgrades
<1>1. PICK d : d = Database
  OBVIOUS
<1>2. PICK from \in 0 .. 15 : from = revision
  BY DEF IInv
<1>3. to \in from .. 15 /\ to \in 0 .. 15
  BY <1>2, LastRevision
<1>4. PICK old \in BOOLEAN : (revision = 0 => old = FALSE) /\ Fits(old, revision, tables)
  BY DEF IInv
<1>5. /\ IsDatabase(d) /\ d.ok /\ d.tables = tables /\ d.types = types /\ d.rows = rows
  BY <1>1, DatabaseIs
<1>6. Upgraded(d, from, to).ok <=> Climbable(from, to, d)
  <2>1. (from = 0 => old = FALSE) /\ Fits(old, from, d.tables)
    BY <1>2, <1>4, <1>5
  <2>2. Climbed(old, from, to, d, Upgraded(d, from, to))
    BY <1>3, <1>5, <2>1, Upgrades
  <2> QED
    BY <2>2 DEF Climbed
<1>7. Chain[to].types \ Chain[from].types = NewTypes(Count(from), Count(to))
  <2>1. /\ Chain[to].types = NewTypes(0, Count(to))
        /\ Chain[from].types = NewTypes(0, Count(from))
    BY <1>3, ChainIs
  <2>2. PICK a \in 0 .. 33, b \in 0 .. 33 : a = Count(from) /\ b = Count(to) /\ a <= b
    BY <1>3, CountMonotone
  <2>3. /\ NewTypes(0, b) = NewTypes(0, a) \cup NewTypes(a, b)
        /\ NewTypes(0, a) \cap NewTypes(a, b) = {}
    <3>1. 0 \in 0 .. 33 /\ b \in a .. 33
      BY <2>2
    <3> QED
      BY <3>1, TypesSplit
  <2> QED
    BY <2>1, <2>2, <2>3
<1> QED
  BY <1>1, <1>2, <1>5, <1>6, <1>7 DEF Climbable

\* An upgrade fails if and only if an enum type it creates was left behind by a
\* downgrade, or it crosses 2e with users or 8c6ab8f9e25e with audit logs: no
\* other order of revisions and rows stands in the way of alembic upgrade.
THEOREM WhatBlocksUpgradesHolds == Spec => []WhatBlocksUpgrades
  BY InductiveInvariant, UpgradesFromIInv, PTL

\* Only the two revisions that ask for values stand in the way of a downgrade.
LEMMA DowngradesFromIInv == IInv => WhatBlocksDowngrades
<1> SUFFICES ASSUME IInv, NEW to \in 0 .. revision - 1
             PROVE  Downgraded(Database, revision, to).ok <=>
                       /\ ~("users" \in rows /\ Crossed(Auth, to, revision))
                       /\ ~("audit_logs" \in rows /\ Crossed(Audit, to, revision))
  BY DEF WhatBlocksDowngrades
<1>1. PICK d : d = Database
  OBVIOUS
<1>2. PICK from \in 0 .. 15 : from = revision
  BY DEF IInv
<1>3. to \in 0 .. from
  BY <1>2
<1>4. /\ IsDatabase(d) /\ d.ok /\ d.tables = tables /\ d.types = types /\ d.rows = rows
  BY <1>1, DatabaseIs
<1>5. \E old \in BOOLEAN : Fits(old, from, d.tables)
  BY <1>2, <1>4 DEF IInv
<1>6. Descended(from, to, d, Downgraded(d, from, to))
  BY <1>3, <1>4, <1>5, Downgrades
<1> QED
  BY <1>1, <1>2, <1>4, <1>6 DEF Descended, Descendable

\* A downgrade fails if and only if it crosses 2e with users or 8c6ab8f9e25e with
\* audit logs: the order of drop_table and drop_index in every downgrade() is
\* right for every database the revisions can have made.
THEOREM WhatBlocksDowngradesHolds == Spec => []WhatBlocksDowngrades
  BY InductiveInvariant, DowngradesFromIInv, PTL

\* An upgrade that crosses neither of the two revisions keeps the columns of
\* their tables; the others are never changed, but for is_deleted.
LEMMA ColumnsKept ==
    ASSUME NEW from \in 0 .. 14, NEW to \in from .. 15, NEW old \in BOOLEAN,
           NEW i \in 1 .. 33,
           i = 2 => ~ Crossed(Auth, from, to), i = 11 => ~ Crossed(Audit, from, to)
    PROVE  Columns(At(old, from, i)) \ Columns(At(old, to, i)) \subseteq
              IF i = 2 /\ Crossed(Campaigns, from, to) THEN {"is_verified"} ELSE {}
<1>1. At(old, from, i) = Hard(old, from, i)
  BY DEF At
<1>2. Columns(Hard(old, to, i)) \subseteq Columns(At(old, to, i))
  <2>1. CASE to = 15 /\ \E n \in 1 .. 9 : Soft[n] = i
    <3>1. Deletable(Hard(old, to, i))
      BY <2>1, SoftTables DEF Hard, Users, Soft
    <3>2. PICK def : def = Hard(old, to, i)
      OBVIOUS
    <3>3. At(old, to, i) = Softened(def)
      BY <2>1, <3>2 DEF At
    <3>4. PICK required : required = def.required \cup {"is_deleted"}
      OBVIOUS
    <3>5. Softened(def) = [def EXCEPT !.required = required]
      BY <3>4 DEF Softened
    <3>6. Softened(def).required = required /\ Softened(def).optional = def.optional
      BY <3>1, <3>2, <3>5 DEF Deletable
    <3> QED
      BY <3>2, <3>3, <3>4, <3>6 DEF Columns
  <2>2. CASE ~ (to = 15 /\ \E n \in 1 .. 9 : Soft[n] = i)
    BY <2>2 DEF At
  <2> QED
    BY <2>1, <2>2
<1>3. CASE i = 2
  <2>1. Hard(old, from, i) = Users(old, from) /\ Hard(old, to, i) = Users(old, to)
    BY <1>3 DEF Hard
  <2>2. ~ (from < 4 /\ 4 <= to)
    BY <1>3 DEF Crossed, Auth
  <2>3. CASE from < 6 /\ 6 <= to
    <3>1. Users(old, from) = users_2e /\ Users(old, to) = users_6d96
      BY <2>2, <2>3 DEF Users
    <3>2. Columns(users_2e) \ Columns(users_6d96) \subseteq {"is_verified"}
      BY DEF Columns, users_6d96, users_2e
    <3>3. Crossed(Campaigns, from, to)
      BY <2>3 DEF Crossed, Campaigns
    <3> QED
      BY <1>1, <1>2, <1>3, <2>1, <3>1, <3>2, <3>3
  <2>4. CASE ~ (from < 6 /\ 6 <= to)
    <3>1. Users(old, from) = Users(old, to)
      BY <2>2, <2>4 DEF Users
    <3> QED
      BY <1>1, <1>2, <2>1, <3>1
  <2> QED
    BY <2>3, <2>4
<1>4. CASE i # 2
  <2>1. Hard(old, from, i) = Hard(old, to, i)
    BY <1>4 DEF Hard, AuditLogs, Crossed, Audit
  <2> QED
    BY <1>1, <1>2, <2>1
<1> QED
  BY <1>3, <1>4

\* A step keeps the rows and columns DataSurvives says it keeps.
LEMMA DataSurvivesStep ==
    ASSUME IInv, [Next]_vars
    PROVE  [/\ revision' > revision =>
                  /\ rows' = rows
                  /\ \A t \in rows :
                        Columns(tables[t]) \ Columns(tables'[t]) \subseteq
                            IF t = "users" /\ Crossed(Campaigns, revision, revision')
                            THEN {"is_verified"} ELSE {}
            /\ revision' < revision => rows' = rows \cap DOMAIN tables']_vars
<1> DEFINE Survives ==
            /\ revision' > revision =>
                  /\ rows' = rows
                  /\ \A t \in rows :
                        Columns(tables[t]) \ Columns(tables'[t]) \subseteq
                            IF t = "users" /\ Crossed(Campaigns, revision, revision')
                            THEN {"is_verified"} ELSE {}
            /\ revision' < revision => rows' = rows \cap DOMAIN tables'
<1>1. PICK from \in 0 .. 15 : from = revision
  BY DEF IInv
<1>2. ASSUME NEW to \in 0 .. HeadRevision, to > revision, upgrade(to)
      PROVE  Survives
  <2>1. to \in 0 .. 15 /\ from \in 0 .. 14 /\ to \in from .. 15
    BY <1>1, <1>2, LastRevision
  <2>2. /\ revision' = to
        /\ rows' = rows
        /\ Climbable(revision, to, Database)
        /\ \E old \in BOOLEAN : /\ revision = 0 => old = FALSE
                                /\ Fits(old, revision, tables)
                                /\ Fits(old, to, tables')
    BY <1>2, <2>1, UpgradeEffect
  <2>3. PICK old \in BOOLEAN : Fits(old, from, tables) /\ Fits(old, to, tables')
    BY <1>1, <2>2
  <2>4. /\ ~ ("users" \in rows /\ Crossed(Auth, from, to))
        /\ ~ ("audit_logs" \in rows /\ Crossed(Audit, from, to))
    BY <1>1, <2>2, DatabaseIs DEF Climbable
  <2>5. ASSUME NEW t \in rows
        PROVE  Columns(tables[t]) \ Columns(tables'[t]) \subseteq
                  IF t = "users" /\ Crossed(Campaigns, from, to)
                  THEN {"is_verified"} ELSE {}
    <3>1. PICK i \in 1 .. Count(from) : t = Created[i]
      BY <2>3 DEF IInv, Fits, Known
    <3>2. Count(from) \in 0 .. 33 /\ Count(to) \in 0 .. 33 /\ Count(from) <= Count(to)
      BY <2>1, CountMonotone
    <3>3. i \in 1 .. 33 /\ i \in 1 .. Count(to)
      BY <3>1, <3>2
    <3>4. tables[t] = At(old, from, i) /\ tables'[t] = At(old, to, i)
      BY <2>3, <3>1, <3>3 DEF Fits
    <3>5. (i = 2 <=> t = "users") /\ (i = 11 <=> t = "audit_logs")
      BY <3>1, <3>3, Placed, CreatedOnce
    <3>6. (i = 2 => ~ Crossed(Auth, from, to)) /\ (i = 11 => ~ Crossed(Audit, from, to))
      BY <2>4, <3>5
    <3>7. Columns(At(old, from, i)) \ Columns(At(old, to, i)) \subseteq
             IF i = 2 /\ Crossed(Campaigns, from, to) THEN {"is_verified"} ELSE {}
      BY <2>1, <3>3, <3>6, ColumnsKept
    <3> QED
      BY <3>4, <3>5, <3>7
  <2> QED
    BY <1>1, <1>2, <2>1, <2>2, <2>5
<1>3. ASSUME NEW to \in 0 .. HeadRevision, to < revision, downgrade(to)
      PROVE  Survives
  <2>1. to \in 0 .. 15
    BY LastRevision
  <2>2. revision' = to /\ rows' = rows \cap DOMAIN tables'
    BY <1>3, <2>1, DowngradeEffect
  <2> QED
    BY <1>1, <1>3, <2>1, <2>2
<1>4. ASSUME NEW t \in Stored, insert(t) \/ delete(t)
      PROVE  Survives
  BY <1>1, <1>4 DEF insert, delete
<1> QED
  BY <1>2, <1>3, <1>4 DEF Next

\* No upgrade() loses a row, nor a column of a table with rows but is_verified; a
\* downgrade() loses the rows of the tables it drops and no others.
THEOREM DataSurvivesHolds == Spec => DataSurvives
<1>1. IInv /\ [Next]_vars =>
         [/\ revision' > revision =>
                /\ rows' = rows
                /\ \A t \in rows :
                      Columns(tables[t]) \ Columns(tables'[t]) \subseteq
                          IF t = "users" /\ Crossed(Campaigns, revision, revision')
                          THEN {"is_verified"} ELSE {}
          /\ revision' < revision => rows' = rows \cap DOMAIN tables']_vars
  BY DataSurvivesStep
<1> QED
  BY <1>1, InductiveInvariant, PTL DEF Spec, DataSurvives

-----------------------------------------------------------------------------
\* A table is as a class declares it, but for the index on is_deleted and for
\* the one enum type no revision creates.
Alike(def, class) ==
    /\ def.required = class.required
    /\ def.optional = class.optional
    /\ def.refs = class.refs
    /\ def.unique = class.unique
    /\ def.index = class.index \ {{"is_deleted"}}
    /\ def.types = class.types \ {"schedulestatus"}

\* The tables no later revision changes are created as the classes of
\* app/models declare them.
LEMMA UnchangedAlike ==
    ASSUME NEW i \in 1 .. 33, i # 2, i # 11, \A n \in 1 .. 9 : Soft[n] # i
    PROVE  Alike(Made[i], Declared[Created[i]])
<1>1. Alike(plans, Plan)
  BY DEF Alike, plans, Plan, Mapped, Base, TimestampMixin, Each, To,
         AuthorRefs, Authors, Stamps
<1>2. Alike(user_preferences, UserPreference)
  BY DEF Alike, user_preferences, UserPreference, Mapped, Base,
         TimestampMixin, Each, To, AuthorRefs, Authors, Stamps
<1>3. Alike(permissions, Permission)
  BY DEF Alike, permissions, Permission, Mapped, Base, TimestampMixin, Each,
         To, AuthorRefs, Authors, Stamps
<1>4. Alike(roles, Role)
  BY DEF Alike, roles, Role, Mapped, Base, TimestampMixin, Each, To,
         AuthorRefs, Authors, Stamps
<1>5. Alike(role_permissions, RolePermission)
  BY DEF Alike, role_permissions, RolePermission, Mapped, Base, Each, To,
         AuthorRefs, Authors, Stamps
<1>6. Alike(workspace_invites, WorkspaceInvite)
  BY DEF Alike, workspace_invites, WorkspaceInvite, Mapped, Base,
         TimestampMixin, TenantMixin, Each, To, AuthorRefs, Authors, Stamps
<1>7. Alike(api_keys, ApiKey)
  BY DEF Alike, api_keys, ApiKey, Mapped, Base, TimestampMixin, TenantMixin,
         Each, To, AuthorRefs, Authors, Stamps
<1>8. Alike(notifications, Notification)
  BY DEF Alike, notifications, Notification, Mapped, Base, TenantMixin, Each,
         To, AuthorRefs, Authors, Stamps
<1>9. Alike(campaign_assets, campaign_asset_association)
  BY DEF Alike, campaign_assets, campaign_asset_association, Each, To,
         AuthorRefs, Authors, Stamps
<1>10. Alike(campaign_schedules, CampaignSchedule)
  BY DEF Alike, campaign_schedules, CampaignSchedule, Mapped, Base,
         TimestampMixin, TenantMixin, AuditMixin, Each, To, AuthorRefs,
         Authors, Stamps
<1>11. Alike(campaign_content_assets, content_asset_association)
  BY DEF Alike, campaign_content_assets, content_asset_association, Each, To,
         AuthorRefs, Authors, Stamps
<1>12. Alike(ai_usage, AIUsage)
  BY DEF Alike, ai_usage, AIUsage, Mapped, Base, TimestampMixin, TenantMixin,
         Each, To, AuthorRefs, Authors, Stamps
<1>13. Alike(analytics_snapshots, AnalyticsSnapshot)
  BY DEF Alike, analytics_snapshots, AnalyticsSnapshot, Mapped, Base,
         TimestampMixin, TenantMixin, Each, To, AuthorRefs, Authors, Stamps
<1>14. Alike(campaign_analytics, CampaignAnalytics)
  BY DEF Alike, campaign_analytics, CampaignAnalytics, Mapped, Base,
         TimestampMixin, TenantMixin, Each, To, AuthorRefs, Authors, Stamps
<1>15. Alike(notification_preferences, NotificationPreference)
  BY DEF Alike, notification_preferences, NotificationPreference, Mapped,
         Base, TimestampMixin, TenantMixin, Each, To, AuthorRefs, Authors,
         Stamps
<1>16. Alike(notification_templates, NotificationTemplate)
  BY DEF Alike, notification_templates, NotificationTemplate, Mapped, Base,
         TimestampMixin, TenantMixin, Each, To, AuthorRefs, Authors, Stamps
<1>17. Alike(notification_deliveries, NotificationDelivery)
  BY DEF Alike, notification_deliveries, NotificationDelivery, Mapped, Base,
         TimestampMixin, TenantMixin, Each, To, AuthorRefs, Authors, Stamps
<1>18. Alike(job_executions, JobExecution)
  BY DEF Alike, job_executions, JobExecution, Mapped, Base, TimestampMixin,
         Each, To, AuthorRefs, Authors, Stamps
<1>19. Alike(feature_flags, FeatureFlag)
  BY DEF Alike, feature_flags, FeatureFlag, Mapped, TimestampMixin, Each, To,
         AuthorRefs, Authors, Stamps
<1>20. Alike(runtime_configurations, RuntimeConfiguration)
  BY DEF Alike, runtime_configurations, RuntimeConfiguration, Mapped,
         TimestampMixin, Each, To, AuthorRefs, Authors, Stamps
<1>21. Alike(system_announcements, SystemAnnouncement)
  BY DEF Alike, system_announcements, SystemAnnouncement, Mapped,
         TimestampMixin, Each, To, AuthorRefs, Authors, Stamps
<1>22. Alike(workspace_features, WorkspaceFeature)
  BY DEF Alike, workspace_features, WorkspaceFeature, Mapped, TimestampMixin,
         Each, To, AuthorRefs, Authors, Stamps
<1>23. Alike(integration_connections, IntegrationConnection)
  BY DEF Alike, integration_connections, IntegrationConnection, Mapped, Base,
         TimestampMixin, Each, To, AuthorRefs, Authors, Stamps
<1> DEFINE Plain == 1 .. 33 \ {2, 4, 8, 11, 13, 14, 15, 17, 20, 21}
<1>24. i \in Plain
  BY DEF Soft
<1>25. /\ Made[1] = plans /\ Declared[Created[1]] = Plan
       /\ Made[3] = user_preferences /\ Declared[Created[3]] = UserPreference
       /\ Made[5] = permissions /\ Declared[Created[5]] = Permission
       /\ Made[6] = roles /\ Declared[Created[6]] = Role
       /\ Made[7] = role_permissions /\ Declared[Created[7]] = RolePermission
       /\ Made[9] = workspace_invites /\ Declared[Created[9]] = WorkspaceInvite
       /\ Made[10] = api_keys /\ Declared[Created[10]] = ApiKey
       /\ Made[12] = notifications /\ Declared[Created[12]] = Notification
       /\ Made[16] = campaign_assets /\ Declared[Created[16]] = campaign_asset_association
       /\ Made[18] = campaign_schedules /\ Declared[Created[18]] = CampaignSchedule
       /\ Made[19] = campaign_content_assets /\ Declared[Created[19]] = content_asset_association
       /\ Made[22] = ai_usage /\ Declared[Created[22]] = AIUsage
       /\ Made[23] = analytics_snapshots /\ Declared[Created[23]] = AnalyticsSnapshot
       /\ Made[24] = campaign_analytics /\ Declared[Created[24]] = CampaignAnalytics
       /\ Made[25] = notification_preferences /\ Declared[Created[25]] = NotificationPreference
       /\ Made[26] = notification_templates /\ Declared[Created[26]] = NotificationTemplate
       /\ Made[27] = notification_deliveries /\ Declared[Created[27]] = NotificationDelivery
       /\ Made[28] = job_executions /\ Declared[Created[28]] = JobExecution
       /\ Made[29] = feature_flags /\ Declared[Created[29]] = FeatureFlag
       /\ Made[30] = runtime_configurations /\ Declared[Created[30]] = RuntimeConfiguration
       /\ Made[31] = system_announcements /\ Declared[Created[31]] = SystemAnnouncement
       /\ Made[32] = workspace_features /\ Declared[Created[32]] = WorkspaceFeature
       /\ Made[33] = integration_connections /\ Declared[Created[33]] = IntegrationConnection
  BY DEF Made, Declared, Created
<1> QED
  BY <1>1, <1>2, <1>3, <1>4, <1>5, <1>6, <1>7, <1>8, <1>9, <1>10, <1>11,
     <1>12, <1>13, <1>14, <1>15, <1>16, <1>17, <1>18, <1>19, <1>20, <1>21,
     <1>22, <1>23, <1>24, <1>25

\* A table to which is_deleted has been added is alike a class with that column.
LEMMA SoftenedAlike ==
    ASSUME NEW def, Deletable(def), NEW class,
           def.required \cup {"is_deleted"} = class.required,
           def.optional = class.optional,
           def.refs = class.refs,
           def.unique = class.unique,
           def.index = class.index \ {{"is_deleted"}},
           def.types = class.types \ {"schedulestatus"}
    PROVE  Alike(Softened(def), class)
<1>1. PICK required : required = def.required \cup {"is_deleted"}
  OBVIOUS
<1>2. Softened(def) = [def EXCEPT !.required = required]
  BY <1>1 DEF Softened
<1>3. Softened(def) = [required |-> required, optional |-> def.optional,
                       refs |-> def.refs, index |-> def.index,
                       unique |-> def.unique, types |-> def.types]
  BY <1>2 DEF Deletable
<1> QED
  BY <1>1, <1>3 DEF Alike

\* The nine tables of feb635deb4a4 end as their classes declare them.
LEMMA SoftAlike ==
    ASSUME NEW n \in 1 .. 9, NEW old \in BOOLEAN
    PROVE  Alike(Softened(Hard(old, 15, Soft[n])), Declared[Created[Soft[n]]])
<1>1. Alike(Softened(users_6d96), User)
  <2>1. users_6d96.required \cup {"is_deleted"} = User.required
    BY DEF users_6d96, users_2e, User, Mapped, Base, TimestampMixin,
           SoftDeleteMixin, Stamps
  <2>2. users_6d96.optional = User.optional
    BY DEF users_6d96, users_2e, User, Mapped, Base, TimestampMixin,
           SoftDeleteMixin, Authors
  <2>3. users_6d96.refs = User.refs
    BY DEF users_6d96, users_2e, User, Mapped, Base, TimestampMixin,
           SoftDeleteMixin
  <2>4. users_6d96.unique = User.unique
    BY DEF users_6d96, users_2e, User, Mapped, Base, TimestampMixin,
           SoftDeleteMixin, Each
  <2>5. users_6d96.index = User.index \ {{"is_deleted"}}
    BY DEF users_6d96, users_2e, User, Mapped, Base, TimestampMixin,
           SoftDeleteMixin, Each
  <2>6. users_6d96.types = User.types \ {"schedulestatus"}
    BY DEF users_6d96, users_2e, User, Mapped, Base, TimestampMixin,
           SoftDeleteMixin
  <2>7. Deletable(users_6d96)
    BY SoftTables
  <2> QED
    BY <2>1, <2>2, <2>3, <2>4, <2>5, <2>6, <2>7, SoftenedAlike
<1>2. Alike(Softened(workspaces), Workspace)
  <2>1. workspaces.required \cup {"is_deleted"} = Workspace.required
    BY DEF workspaces, Workspace, Mapped, Base, TimestampMixin,
           SoftDeleteMixin, AuditMixin, Stamps
  <2>2. workspaces.optional = Workspace.optional
    BY DEF workspaces, Workspace, Mapped, Base, TimestampMixin,
           SoftDeleteMixin, AuditMixin, Authors
  <2>3. workspaces.refs = Workspace.refs
    BY DEF workspaces, Workspace, Mapped, Base, TimestampMixin,
           SoftDeleteMixin, AuditMixin
  <2>4. workspaces.unique = Workspace.unique
    BY DEF workspaces, Workspace, Mapped, Base, TimestampMixin,
           SoftDeleteMixin, AuditMixin, Each
  <2>5. workspaces.index = Workspace.index \ {{"is_deleted"}}
    BY DEF workspaces, Workspace, Mapped, Base, TimestampMixin,
           SoftDeleteMixin, AuditMixin, Each
  <2>6. workspaces.types = Workspace.types \ {"schedulestatus"}
    BY DEF workspaces, Workspace, Mapped, Base, TimestampMixin,
           SoftDeleteMixin, AuditMixin
  <2>7. Deletable(workspaces)
    BY SoftTables DEF Made
  <2> QED
    BY <2>1, <2>2, <2>3, <2>4, <2>5, <2>6, <2>7, SoftenedAlike
<1>3. Alike(Softened(workspace_members), WorkspaceMember)
  <2>1. workspace_members.required \cup {"is_deleted"} = WorkspaceMember.required
    BY DEF workspace_members, WorkspaceMember, Mapped, Base, TimestampMixin,
           SoftDeleteMixin, TenantMixin, AuditMixin, Stamps
  <2>2. workspace_members.optional = WorkspaceMember.optional
    BY DEF workspace_members, WorkspaceMember, Mapped, Base, TimestampMixin,
           SoftDeleteMixin, TenantMixin, AuditMixin, Authors
  <2>3. workspace_members.refs = WorkspaceMember.refs
    BY DEF workspace_members, WorkspaceMember, Mapped, Base, TimestampMixin,
           SoftDeleteMixin, TenantMixin, AuditMixin, To, AuthorRefs, Authors
  <2>4. workspace_members.unique = WorkspaceMember.unique
    BY DEF workspace_members, WorkspaceMember, Mapped, Base, TimestampMixin,
           SoftDeleteMixin, TenantMixin, AuditMixin, Each
  <2>5. workspace_members.index = WorkspaceMember.index \ {{"is_deleted"}}
    BY DEF workspace_members, WorkspaceMember, Mapped, Base, TimestampMixin,
           SoftDeleteMixin, TenantMixin, AuditMixin, Each
  <2>6. workspace_members.types = WorkspaceMember.types \ {"schedulestatus"}
    BY DEF workspace_members, WorkspaceMember, Mapped, Base, TimestampMixin,
           SoftDeleteMixin, TenantMixin, AuditMixin
  <2>7. Deletable(workspace_members)
    BY SoftTables DEF Made
  <2> QED
    BY <2>1, <2>2, <2>3, <2>4, <2>5, <2>6, <2>7, SoftenedAlike
<1>4. Alike(Softened(campaigns), Campaign)
  <2>1. campaigns.required \cup {"is_deleted"} = Campaign.required
    BY DEF campaigns, Campaign, Mapped, Base, TimestampMixin, TenantMixin,
           AuditMixin, SoftDeleteMixin, Stamps
  <2>2. campaigns.optional = Campaign.optional
    BY DEF campaigns, Campaign, Mapped, Base, TimestampMixin, TenantMixin,
           AuditMixin, SoftDeleteMixin, Authors
  <2>3. campaigns.refs = Campaign.refs
    BY DEF campaigns, Campaign, Mapped, Base, TimestampMixin, TenantMixin,
           AuditMixin, SoftDeleteMixin, To, AuthorRefs, Authors
  <2>4. campaigns.unique = Campaign.unique
    BY DEF campaigns, Campaign, Mapped, Base, TimestampMixin, TenantMixin,
           AuditMixin, SoftDeleteMixin, Each
  <2>5. campaigns.index = Campaign.index \ {{"is_deleted"}}
    BY DEF campaigns, Campaign, Mapped, Base, TimestampMixin, TenantMixin,
           AuditMixin, SoftDeleteMixin, Each
  <2>6. campaigns.types = Campaign.types \ {"schedulestatus"}
    BY DEF campaigns, Campaign, Mapped, Base, TimestampMixin, TenantMixin,
           AuditMixin, SoftDeleteMixin
  <2>7. Deletable(campaigns)
    BY SoftTables DEF Made
  <2> QED
    BY <2>1, <2>2, <2>3, <2>4, <2>5, <2>6, <2>7, SoftenedAlike
<1>5. Alike(Softened(assets), Asset)
  <2>1. assets.required \cup {"is_deleted"} = Asset.required
    BY DEF assets, Asset, Mapped, Base, TimestampMixin, TenantMixin,
           AuditMixin, SoftDeleteMixin, Stamps
  <2>2. assets.optional = Asset.optional
    BY DEF assets, Asset, Mapped, Base, TimestampMixin, TenantMixin,
           AuditMixin, SoftDeleteMixin, Authors
  <2>3. assets.refs = Asset.refs
    BY DEF assets, Asset, Mapped, Base, TimestampMixin, TenantMixin,
           AuditMixin, SoftDeleteMixin, To, AuthorRefs, Authors
  <2>4. assets.unique = Asset.unique
    BY DEF assets, Asset, Mapped, Base, TimestampMixin, TenantMixin,
           AuditMixin, SoftDeleteMixin, Each
  <2>5. assets.index = Asset.index \ {{"is_deleted"}}
    BY DEF assets, Asset, Mapped, Base, TimestampMixin, TenantMixin,
           AuditMixin, SoftDeleteMixin, Each
  <2>6. assets.types = Asset.types \ {"schedulestatus"}
    BY DEF assets, Asset, Mapped, Base, TimestampMixin, TenantMixin,
           AuditMixin, SoftDeleteMixin
  <2>7. Deletable(assets)
    BY SoftTables DEF Made
  <2> QED
    BY <2>1, <2>2, <2>3, <2>4, <2>5, <2>6, <2>7, SoftenedAlike
<1>6. Alike(Softened(brand_kits), BrandKit)
  <2>1. brand_kits.required \cup {"is_deleted"} = BrandKit.required
    BY DEF brand_kits, BrandKit, Mapped, Base, TimestampMixin, TenantMixin,
           AuditMixin, SoftDeleteMixin, Stamps
  <2>2. brand_kits.optional = BrandKit.optional
    BY DEF brand_kits, BrandKit, Mapped, Base, TimestampMixin, TenantMixin,
           AuditMixin, SoftDeleteMixin, Authors
  <2>3. brand_kits.refs = BrandKit.refs
    BY DEF brand_kits, BrandKit, Mapped, Base, TimestampMixin, TenantMixin,
           AuditMixin, SoftDeleteMixin, To, AuthorRefs, Authors
  <2>4. brand_kits.unique = BrandKit.unique
    BY DEF brand_kits, BrandKit, Mapped, Base, TimestampMixin, TenantMixin,
           AuditMixin, SoftDeleteMixin, Each
  <2>5. brand_kits.index = BrandKit.index \ {{"is_deleted"}}
    BY DEF brand_kits, BrandKit, Mapped, Base, TimestampMixin, TenantMixin,
           AuditMixin, SoftDeleteMixin, Each
  <2>6. brand_kits.types = BrandKit.types \ {"schedulestatus"}
    BY DEF brand_kits, BrandKit, Mapped, Base, TimestampMixin, TenantMixin,
           AuditMixin, SoftDeleteMixin
  <2>7. Deletable(brand_kits)
    BY SoftTables DEF Made
  <2> QED
    BY <2>1, <2>2, <2>3, <2>4, <2>5, <2>6, <2>7, SoftenedAlike
<1>7. Alike(Softened(campaign_content), CampaignContent)
  <2>1. campaign_content.required \cup {"is_deleted"} = CampaignContent.required
    BY DEF campaign_content, CampaignContent, Mapped, Base, TimestampMixin,
           TenantMixin, AuditMixin, SoftDeleteMixin, Stamps
  <2>2. campaign_content.optional = CampaignContent.optional
    BY DEF campaign_content, CampaignContent, Mapped, Base, TimestampMixin,
           TenantMixin, AuditMixin, SoftDeleteMixin, Authors
  <2>3. campaign_content.refs = CampaignContent.refs
    BY DEF campaign_content, CampaignContent, Mapped, Base, TimestampMixin,
           TenantMixin, AuditMixin, SoftDeleteMixin, To, AuthorRefs, Authors
  <2>4. campaign_content.unique = CampaignContent.unique
    BY DEF campaign_content, CampaignContent, Mapped, Base, TimestampMixin,
           TenantMixin, AuditMixin, SoftDeleteMixin, Each
  <2>5. campaign_content.index = CampaignContent.index \ {{"is_deleted"}}
    BY DEF campaign_content, CampaignContent, Mapped, Base, TimestampMixin,
           TenantMixin, AuditMixin, SoftDeleteMixin, Each
  <2>6. campaign_content.types = CampaignContent.types \ {"schedulestatus"}
    BY DEF campaign_content, CampaignContent, Mapped, Base, TimestampMixin,
           TenantMixin, AuditMixin, SoftDeleteMixin
  <2>7. Deletable(campaign_content)
    BY SoftTables DEF Made
  <2> QED
    BY <2>1, <2>2, <2>3, <2>4, <2>5, <2>6, <2>7, SoftenedAlike
<1>8. Alike(Softened(social_accounts), SocialAccount)
  <2>1. social_accounts.required \cup {"is_deleted"} = SocialAccount.required
    BY DEF social_accounts, SocialAccount, Mapped, Base, TimestampMixin,
           TenantMixin, AuditMixin, SoftDeleteMixin, Stamps
  <2>2. social_accounts.optional = SocialAccount.optional
    BY DEF social_accounts, SocialAccount, Mapped, Base, TimestampMixin,
           TenantMixin, AuditMixin, SoftDeleteMixin, Authors
  <2>3. social_accounts.refs = SocialAccount.refs
    BY DEF social_accounts, SocialAccount, Mapped, Base, TimestampMixin,
           TenantMixin, AuditMixin, SoftDeleteMixin, To, AuthorRefs, Authors
  <2>4. social_accounts.unique = SocialAccount.unique
    BY DEF social_accounts, SocialAccount, Mapped, Base, TimestampMixin,
           TenantMixin, AuditMixin, SoftDeleteMixin, Each
  <2>5. social_accounts.index = SocialAccount.index \ {{"is_deleted"}}
    BY DEF social_accounts, SocialAccount, Mapped, Base, TimestampMixin,
           TenantMixin, AuditMixin, SoftDeleteMixin, Each
  <2>6. social_accounts.types = SocialAccount.types \ {"schedulestatus"}
    BY DEF social_accounts, SocialAccount, Mapped, Base, TimestampMixin,
           TenantMixin, AuditMixin, SoftDeleteMixin
  <2>7. Deletable(social_accounts)
    BY SoftTables DEF Made
  <2> QED
    BY <2>1, <2>2, <2>3, <2>4, <2>5, <2>6, <2>7, SoftenedAlike
<1>9. Alike(Softened(publish_history), PublishHistory)
  <2>1. publish_history.required \cup {"is_deleted"} = PublishHistory.required
    BY DEF publish_history, PublishHistory, Mapped, Base, TimestampMixin,
           TenantMixin, AuditMixin, SoftDeleteMixin, Stamps
  <2>2. publish_history.optional = PublishHistory.optional
    BY DEF publish_history, PublishHistory, Mapped, Base, TimestampMixin,
           TenantMixin, AuditMixin, SoftDeleteMixin, Authors
  <2>3. publish_history.refs = PublishHistory.refs
    BY DEF publish_history, PublishHistory, Mapped, Base, TimestampMixin,
           TenantMixin, AuditMixin, SoftDeleteMixin, To, AuthorRefs, Authors
  <2>4. publish_history.unique = PublishHistory.unique
    BY DEF publish_history, PublishHistory, Mapped, Base, TimestampMixin,
           TenantMixin, AuditMixin, SoftDeleteMixin, Each
  <2>5. publish_history.index = PublishHistory.index \ {{"is_deleted"}}
    BY DEF publish_history, PublishHistory, Mapped, Base, TimestampMixin,
           TenantMixin, AuditMixin, SoftDeleteMixin, Each
  <2>6. publish_history.types = PublishHistory.types \ {"schedulestatus"}
    BY DEF publish_history, PublishHistory, Mapped, Base, TimestampMixin,
           TenantMixin, AuditMixin, SoftDeleteMixin
  <2>7. Deletable(publish_history)
    BY SoftTables DEF Made
  <2> QED
    BY <2>1, <2>2, <2>3, <2>4, <2>5, <2>6, <2>7, SoftenedAlike
<1>10. /\ Hard(old, 15, Soft[1]) = users_6d96 /\ Declared[Created[Soft[1]]] = User
       /\ Hard(old, 15, Soft[2]) = workspaces /\ Declared[Created[Soft[2]]] = Workspace
       /\ Hard(old, 15, Soft[3]) = workspace_members /\ Declared[Created[Soft[3]]] = WorkspaceMember
       /\ Hard(old, 15, Soft[4]) = campaigns /\ Declared[Created[Soft[4]]] = Campaign
       /\ Hard(old, 15, Soft[5]) = assets /\ Declared[Created[Soft[5]]] = Asset
       /\ Hard(old, 15, Soft[6]) = brand_kits /\ Declared[Created[Soft[6]]] = BrandKit
       /\ Hard(old, 15, Soft[7]) = campaign_content /\ Declared[Created[Soft[7]]] = CampaignContent
       /\ Hard(old, 15, Soft[8]) = social_accounts /\ Declared[Created[Soft[8]]] = SocialAccount
       /\ Hard(old, 15, Soft[9]) = publish_history /\ Declared[Created[Soft[9]]] = PublishHistory
  BY DEF Hard, Users, Soft, Made, Declared, Created
<1> QED
  BY <1>1, <1>2, <1>3, <1>4, <1>5, <1>6, <1>7, <1>8, <1>9, <1>10

\* At the last revision every table is alike its class.
LEMMA HeadAlike ==
    ASSUME NEW i \in 1 .. 33, NEW old \in BOOLEAN
    PROVE  /\ Alike(At(old, 15, i), Declared[Created[i]])
           /\ At(old, 15, i).types = Made[i].types
<1>1. CASE \E n \in 1 .. 9 : Soft[n] = i
  <2>1. At(old, 15, i) = Softened(Hard(old, 15, i))
    BY <1>1 DEF At
  <2>2. Alike(At(old, 15, i), Declared[Created[i]])
    BY <1>1, <2>1, SoftAlike
  <2>3. Softened(Hard(old, 15, i)).types = Hard(old, 15, i).types
    BY DEF Softened
  <2>4. users_6d96.types = users.types
    BY DEF users_6d96, users_2e, users
  <2>5. i # 11
    BY <1>1 DEF Soft
  <2>6. Hard(old, 15, i).types = Made[i].types
    BY <2>4, <2>5, Placed DEF Hard, Users
  <2> QED
    BY <2>1, <2>2, <2>3, <2>6
<1>2. CASE i = 11
  <2>1. At(old, 15, i) = audit_logs_8c6a
    BY <1>2 DEF At, Hard, AuditLogs, Soft
  <2>2. Alike(audit_logs_8c6a, AuditLog)
    BY DEF Alike, audit_logs_8c6a, AuditLog, Each
  <2>3. Declared[Created[11]] = AuditLog
    BY DEF Declared, Created
  <2>4. audit_logs_8c6a.types = Made[11].types
    BY Placed DEF audit_logs_8c6a, audit_logs
  <2> QED
    BY <1>2, <2>1, <2>2, <2>3, <2>4
<1>3. CASE i # 11 /\ ~ \E n \in 1 .. 9 : Soft[n] = i
  <2>1. Soft[1] = 2
    BY DEF Soft
  <2>2. i # 2
    BY <1>3, <2>1
  <2>3. At(old, 15, i) = Made[i]
    BY <1>3, <2>2 DEF At, Hard
  <2> QED
    BY <1>3, <2>2, <2>3, UnchangedAlike
<1> QED
  BY <1>1, <1>2, <1>3

\* The classes name the tables the revisions create.
LEMMA DeclaredTables == DOMAIN Declared = Known(33)
<1>1. ASSUME NEW i \in 1 .. 33
      PROVE  Created[i] \in DOMAIN Declared
  BY DEF Declared, Created
<1>2. ASSUME NEW t \in DOMAIN Declared
      PROVE  \E i \in 1 .. 33 : Created[i] = t
  BY DEF Declared, Created
<1> QED
  BY <1>1, <1>2 DEF Known

\* The tables of the last revision are those of the classes, and schedulestatus is
\* the type that is missing.
LEMMA HeadFromIInv == IInv => HeadMatchesModels
<1> SUFFICES ASSUME IInv, revision = HeadRevision
             PROVE  /\ DOMAIN tables = DOMAIN Declared
                    /\ \A t \in DOMAIN tables :
                          LET table == tables[t]
                              class == Declared[t]
                          IN  /\ table.required = class.required
                              /\ table.optional = class.optional
                              /\ table.refs = class.refs
                              /\ table.unique = class.unique
                              /\ table.index = class.index \ {{"is_deleted"}}
                    /\ (UNION {Declared[t].types : t \in DOMAIN Declared}) \ types
                          = {"schedulestatus"}
  BY DEF HeadMatchesModels
<1>1. revision = 15 /\ Count(15) = 33
  BY LastRevision, Counts
<1>2. PICK old \in BOOLEAN : Fits(old, 15, tables)
  BY <1>1 DEF IInv
<1>3. DOMAIN tables = DOMAIN Declared
  BY <1>1, <1>2, DeclaredTables DEF Fits
<1>4. ASSUME NEW t \in DOMAIN tables
      PROVE  Alike(tables[t], Declared[t])
  <2>1. PICK i \in 1 .. 33 : t = Created[i]
    BY <1>3, DeclaredTables DEF Known
  <2>2. tables[t] = At(old, 15, i)
    BY <1>1, <1>2, <2>1 DEF Fits
  <2> QED
    BY <2>1, <2>2, HeadAlike
<1>5. types = NewTypes(0, 33)
  BY <1>1 DEF IInv
<1>6. \A i \in 1 .. 33 : Made[i].types = Declared[Created[i]].types \ {"schedulestatus"}
  BY HeadAlike DEF Alike
<1>7. types = (UNION {Declared[t].types : t \in DOMAIN Declared}) \ {"schedulestatus"}
  BY <1>5, <1>6, DeclaredTables DEF NewTypes, Known
<1>8. "schedulestatus" \in UNION {Declared[t].types : t \in DOMAIN Declared}
  <2>1. Declared["campaign_schedules"] = CampaignSchedule /\ "campaign_schedules" \in DOMAIN Declared
    BY DEF Declared
  <2>2. "schedulestatus" \in CampaignSchedule.types
    BY DEF CampaignSchedule, Mapped
  <2> QED
    BY <2>1, <2>2
<1> QED
  BY <1>3, <1>4, <1>7, <1>8 DEF Alike

\* A database at the last revision, whatever way it came there, has the columns,
\* keys and indexes the classes of app/models declare, without the indexes on
\* is_deleted, and has every enum type they use but schedulestatus.
THEOREM HeadMatchesModelsHolds == Spec => []HeadMatchesModels
  BY InductiveInvariant, HeadFromIInv, PTL
=============================================================================
