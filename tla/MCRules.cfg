SPECIFICATION RulesSpec
CONSTANTS
    Selections <- MCSelections
    Denials <- MCDenials
    PodTemplates <- MCPodTemplates
    Histories <- MCHistories
    RevisionNumbers = {0, 1, 2}
    Groups = {"g1", "g2"}
    Namespaces = {"ns"}
    Fleets <- MCFleets
    Remembered = {1, 2, 3}
    RememberTtl = 2
    RememberRoom = 2
    Clocks = {4}
    RbacClusters <- MCRbacClusters
    RbacQuestions <- MCRbacQuestions
    Places = {1, 2}
    Hosts = {"n1", "n2"}
    Manifests <- MCManifests
    Figures <- MCFigures
    JobHistories <- MCJobHistories
    Probings <- MCProbings
    Images <- MCImages
    Spreads <- MCSpreads
    References <- MCReferences
    Leftovers <- MCLeftovers
    Holdings <- MCHoldings
    Placements <- MCPlacements
    Quotas <- MCQuotas
    Budgets <- MCBudgets
    RoleRules <- MCRoleRules
    RoleBindings <- MCRoleBindings
    Selectings <- MCSelectings
    Ranges <- MCRanges
    Scalings <- MCScalings
INVARIANTS      ReleasesSound   McpSound
