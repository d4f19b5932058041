SPECIFICATION Spec
CONSTANT Stored = {"users", "workspaces", "audit_logs", "campaigns"}
INVARIANTS
    RevisionFixesSchema
    WhatBlocksUpgrades
    WhatBlocksDowngrades
    HeadMatchesModels
PROPERTY DataSurvives
CHECK_DEADLOCK FALSE
