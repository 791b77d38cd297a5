------------------------------ MODULE MCRingIpc ------------------------------
(* Instances of RingIpc for TLC. *)
EXTENDS RingIpc

Call(op, timeout) == [op |-> op, timeout |-> timeout]

\* epoll_wait(0), epoll_wait(-1) and kevent with a time limit between plain calls
RingCalls ==
    {Call("syscall", "neg"), Call("epoll", "zero"), Call("epoll", "neg"),
     Call("kevent", "pos")}
=============================================================================
