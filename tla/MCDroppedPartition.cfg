CONSTANTS
    Names = {"n1", "n2", "n3", "n4", "n5", "n6"}
    MaxSteps = 4
    TypeMax <- MCTypeMax
    Baselines <- DroppedPartitionBaseline
    CreateTableStmts <- MCCreateTable
    DropTableStmts <- MCDropTable
    RenameRelationStmts <- MCRename
    RelationOwnerStmts <- MCOwner
    CreateSequenceStmts <- MCCreateSequence
    AlterSequenceStmts <- MCAlterSequence
    DropSequenceStmts <- MCDropSequence
    CreateViewStmts <- MCCreateView
    CreateMatviewStmts <- MCCreateMatview
    RefreshStmts <- MCRefresh
    AlterViewStmts <- MCAlterView
    DropViewStmts <- MCDropView
    CreateIndexStmts <- MCCreateIndex
    AlterIndexStmts <- MCAlterIndex
    DropIndexStmts <- MCDropIndex
    MaintenanceStmts <- MCMaintenance
    PolicyStmts <- MCPolicy
    TriggerStmts <- MCTrigger
    AlterTableStmts <- MCAlterTable
    RoutineStmts <- MCRoutine
    TypeStmts <- MCType
    SchemaStmts <- MCSchema
    RoleStmts <- MCRole
    GrantStmts <- MCGrant
    ExtensionStmts <- MCExtension
    PublicationStmts <- MCPublication
    SubscriptionStmts <- MCSubscription
SPECIFICATION Spec
CHECK_DEADLOCK FALSE
INVARIANT IndexTreeFollowsTables
