--------------------------- MODULE MCAgentPipeline ---------------------------
(* Small logs for TLC: auditd's records of two processes, of which the      *)
(* first starts the second and exits; three lines of sshd.                  *)
EXTENDS AgentPipeline

AuditKind == <<"created", "created", "exited">>
AuditPid == <<1, 2, 1>>
AuditPp == <<0, 1, 0>>

SshdKind == <<"line", "noise", "line">>
SshdPid == <<0, 0, 0>>
SshdPp == SshdPid
=============================================================================
