CONSTANTS
    Files <- MCFiles
    Code <- MCCode
    Rules <- MCRules
    CweOf <- MCCweOf
    Issues <- MCIssues
    Broken = {"broken"}
    Quiet = {"lib"}
    CrossFile = {"XSS"}
    Ignore <- MCIgnore
    Vouch <- MCVouch
    Comments = {}
    Context <- MCContext
    Routed = {"app"}
    AuthRouted = {}
    IdorProven = {}
    Disabled = {"CWE-489"}
    Override <- MCOverride
    Learned = {}
    Accepted <- MCAccepted
    MinConfidence = 65
    Options <- MCOptions
    Trees <- MCTrees
    ServedSets <- MCServed
    Rewrite <- MCRewrite
    Env <- MCEnv
    Elsewhere <- MCElsewhere
    Pasted = {"page"}
    MaxEdits = 1
SPECIFICATION Spec
CHECK_DEADLOCK FALSE
INVARIANTS SevereIsReported SilencedStaysOut RevertRestores VerifiedTextIsKnown
