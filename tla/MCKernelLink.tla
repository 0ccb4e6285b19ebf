---------------------------- MODULE MCKernelLink ----------------------------
(***************************************************************************)
(* An instance of KernelLink: three commands, two of which are about the   *)
(* same approval, one to decide and one to convert it.                     *)
(***************************************************************************)
EXTENDS KernelLink, TLC

CONSTANTS decide, convert, archive, approval

MCCommands == {decide, convert, archive}
MCVerbOf == decide :> "approve" @@ convert :> "send" @@ archive :> "archive"
MCApprovalOf == [c \in MCCommands |-> IF c = archive THEN NoApproval ELSE approval]
MCThemes == {{}, {decide, convert}, {archive}}
=============================================================================
