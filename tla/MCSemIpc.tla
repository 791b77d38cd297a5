------------------------------ MODULE MCSemIpc ------------------------------
(* Instances of SemIpc for TLC. *)
EXTENDS SemIpc, TLC

CONSTANTS t1, t2, p1, p2

K(op, timeout, want, chg) == [op |-> op, timeout |-> timeout, want |-> want, chg |-> chg]
Syscall == K("syscall", "none", FALSE, FALSE)

\* Two threads of a process share its context (PIPELINE mode)
PipelineProc == (t1 :> p1) @@ (t2 :> p1)
PipelineCtx == (p1 :> 0)
PipelineCalls ==
    {Syscall, K("epoll", "zero", TRUE, FALSE), K("epoll", "neg", TRUE, FALSE),
     K("epoll", "pos", TRUE, FALSE),
     K("kevent", "null", TRUE, TRUE), K("kevent", "pos", TRUE, TRUE)}

\* A process and its forked child share a context
ForkedProc == (t1 :> p1) @@ (t2 :> p2)
ForkedCtx == (p1 :> 0) @@ (p2 :> 0)
ForkedCalls == {Syscall, K("epoll", "pos", TRUE, FALSE), K("kevent", "null", TRUE, FALSE)}

\* FF_PRELOAD_POLLING_MODE
PollingCalls ==
    {Syscall, K("epoll", "zero", TRUE, FALSE), K("epoll", "neg", TRUE, FALSE),
     K("epoll", "pos", TRUE, FALSE)}
=============================================================================
