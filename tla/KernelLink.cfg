SPECIFICATION KernelSpec
CONSTANTS
  decide = decide  convert = convert  archive = archive  approval = approval
  NoApproval = NoApproval  NoCommand = NoCommand
  Commands <- MCCommands  Approvals = {approval}
  VerbOf <- MCVerbOf  ApprovalOf <- MCApprovalOf
  Themes <- MCThemes  MaxSeen = 1  MaxFrames = 2  MaxSessions = 2
INVARIANTS Lifeline ApprovalOnce OnceAndAsTold
PROPERTY Reconnects
CHECK_DEADLOCK FALSE
