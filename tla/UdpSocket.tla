------------------------------ MODULE UdpSocket ------------------------------
(***************************************************************************)
(* transport::UdpSocket: an object owns at most one descriptor of the      *)
(* process.  Descriptors are a table of the kernel: a closed one is given  *)
(* out again, to another socket or to a file or device of another part of  *)
(* the program, so an object that kept it would act on what is not its own. *)
(*                                                                         *)
(* The kernel's side (which descriptor, which calls fail, delivery) is     *)
(* external.                                                               *)
(***************************************************************************)
EXTENDS Naturals

CONSTANTS Objects,              \* variables of type UdpSocket
          Fds, kInvalidSocket,
          Ports, Unbound,
          MaxWaiting            \* bound: datagrams in a socket's receive queue

ASSUME InvalidAssumption == kInvalidSocket \notin Fds
ASSUME PortsAssumption == Unbound \notin Ports
ASSUME WaitingAssumption == MaxWaiting \in Nat

VARIABLES
    alive,                  \* objects constructed and not destroyed
    fd_,                    \* per object
    use,                    \* per descriptor: free, socket, foreign
    nonblocking, port, waiting,     \* per descriptor that is a socket
    error                   \* the error_code of the last call, as a flag

kernel == <<use, nonblocking, port, waiting>>
socketVars == <<alive, fd_, kernel, error>>

SocketInit ==
    /\ alive = {}
    /\ fd_ = [object \in Objects |-> kInvalidSocket]
    /\ use \in [Fds -> {"free", "foreign"}]
    /\ nonblocking = [fd \in Fds |-> FALSE]
    /\ port = [fd \in Fds |-> Unbound]
    /\ waiting = [fd \in Fds |-> 0]
    /\ error = FALSE

(* valid *)
Valid(object) == fd_[object] # kInvalidSocket
-----------------------------------------------------------------------------
(* The kernel. *)
Allocate(fd, mode) ==
    /\ use[fd] = "free"
    /\ use' = [use EXCEPT ![fd] = "socket"]
    /\ nonblocking' = [nonblocking EXCEPT ![fd] = mode]
    /\ port' = [port EXCEPT ![fd] = Unbound]
    /\ waiting' = [waiting EXCEPT ![fd] = 0]

(* ::close, on whatever the descriptor is now. *)
Release(fd) ==
    /\ use' = [use EXCEPT ![fd] = "free"]
    /\ UNCHANGED <<nonblocking, port, waiting>>

(* Some other part of the process opens or closes a file or a device. *)
ForeignCall(fd) ==
    /\ use[fd] # "socket"
    /\ use' = [use EXCEPT ![fd] = IF @ = "free" THEN "foreign" ELSE "free"]
    /\ UNCHANGED <<alive, fd_, nonblocking, port, waiting, error>>
-----------------------------------------------------------------------------
Construct(object) ==
    /\ object \notin alive
    /\ alive' = alive \union {object}
    /\ UNCHANGED <<fd_, kernel, error>>

(* Mutant of OpenIpv4: set_non_blocking is forgotten. *)
OpenIpv4Blocking(object) ==
    /\ object \notin alive
    /\ \E fd \in Fds :
          /\ Allocate(fd, FALSE)
          /\ fd_' = [fd_ EXCEPT ![object] = fd]
    /\ alive' = alive \union {object}
    /\ error' = FALSE

(* open_ipv4, into a new object. *)
OpenIpv4(object) ==
    /\ object \notin alive
    /\ \E fd \in Fds :
          /\ Allocate(fd, TRUE)
          /\ fd_' = [fd_ EXCEPT ![object] = fd]
    /\ alive' = alive \union {object}
    /\ error' = FALSE

(* Mutant of OpenIpv4Fails: the half-open socket is not closed. *)
OpenIpv4Leaks(object) ==
    /\ object \notin alive
    /\ \/ UNCHANGED kernel
       \/ \E fd \in Fds : Allocate(fd, FALSE)
    /\ alive' = alive \union {object}
    /\ error' = TRUE
    /\ UNCHANGED fd_

(* ::socket fails, or set_non_blocking does and the descriptor is closed    *)
(* again: the table is as before, and the object returned is not valid.    *)
OpenIpv4Fails(object) ==
    /\ object \notin alive
    /\ alive' = alive \union {object}
    /\ error' = TRUE
    /\ UNCHANGED <<fd_, kernel>>

(* Mutant of Take: the source keeps its descriptor. *)
Copy(object, other) == fd_' = [fd_ EXCEPT ![object] = fd_[other]]

(* fd_ = other.fd_; other.fd_ = kInvalidSocket *)
Take(object, other) ==
    fd_' = [fd_ EXCEPT ![object] = fd_[other], ![other] = kInvalidSocket]

MoveConstruct(object, other) ==
    /\ object \notin alive /\ other \in alive
    /\ alive' = alive \union {object}
    /\ Take(object, other)
    /\ UNCHANGED <<kernel, error>>

CloseFd(object) == IF Valid(object) THEN Release(fd_[object]) ELSE UNCHANGED kernel

(* Mutant of MoveAssign: without the test for itself. *)
MoveAssignBlindly(object, other) ==
    /\ object \in alive /\ other \in alive
    /\ CloseFd(object)
    /\ fd_' = [fd_ EXCEPT ![object] = IF object = other THEN kInvalidSocket ELSE fd_[other],
                          ![other] = kInvalidSocket]
    /\ UNCHANGED <<alive, error>>

MoveAssign(object, other) ==
    /\ object \in alive /\ other \in alive
    /\ IF object = other THEN UNCHANGED <<fd_, kernel>>
                         ELSE CloseFd(object) /\ Take(object, other)
    /\ UNCHANGED <<alive, error>>

(* Mutant of Close: the descriptor is not forgotten. *)
CloseAndKeep(object) ==
    /\ object \in alive
    /\ CloseFd(object)
    /\ UNCHANGED <<alive, fd_, error>>

Close(object) ==
    /\ object \in alive
    /\ CloseFd(object)
    /\ fd_' = [fd_ EXCEPT ![object] = kInvalidSocket]
    /\ UNCHANGED <<alive, error>>

(* ~UdpSocket closes; the object is gone. *)
Destroy(object) ==
    /\ object \in alive
    /\ CloseFd(object)
    /\ fd_' = [fd_ EXCEPT ![object] = kInvalidSocket]
    /\ alive' = alive \ {object}
    /\ UNCHANGED error
-----------------------------------------------------------------------------
(* Calls that use the descriptor.  On an object that is not valid, or when  *)
(* the kernel or to_sockaddr refuses, they report an error and do nothing. *)
CallFails(object) ==
    /\ object \in alive
    /\ error' = TRUE
    /\ UNCHANGED <<alive, fd_, kernel>>

(* A port that another socket is bound to is refused. *)
Bind(object, number) ==
    /\ object \in alive /\ Valid(object)
    /\ port[fd_[object]] = Unbound
    /\ \A fd \in Fds : use[fd] = "socket" => port[fd] # number
    /\ port' = [port EXCEPT ![fd_[object]] = number]
    /\ error' = FALSE
    /\ UNCHANGED <<alive, fd_, use, nonblocking, waiting>>

(* The datagram joins the queue of the socket bound to the port, or is lost. *)
SendTo(object, number) ==
    /\ object \in alive /\ Valid(object)
    /\ \/ UNCHANGED waiting
       \/ \E fd \in Fds :
             /\ use[fd] = "socket" /\ port[fd] = number /\ waiting[fd] < MaxWaiting
             /\ waiting' = [waiting EXCEPT ![fd] = @ + 1]
    /\ error' = FALSE
    /\ UNCHANGED <<alive, fd_, use, nonblocking, port>>

(* Nothing waiting is no error; a blocking socket would not return. *)
ReceiveFrom(object) ==
    /\ object \in alive /\ Valid(object)
    /\ LET fd == fd_[object]
       IN  \/ /\ waiting[fd] > 0
              /\ waiting' = [waiting EXCEPT ![fd] = @ - 1]
           \/ /\ waiting[fd] = 0 /\ nonblocking[fd]
              /\ UNCHANGED waiting
    /\ error' = FALSE
    /\ UNCHANGED <<alive, fd_, use, nonblocking, port>>

SocketNext ==
    \/ \E fd \in Fds : ForeignCall(fd)
    \/ \E object \in Objects :
          \/ Construct(object) \/ OpenIpv4(object) \/ OpenIpv4Fails(object)
          \/ Close(object) \/ Destroy(object) \/ CallFails(object) \/ ReceiveFrom(object)
    \/ \E object, other \in Objects : MoveConstruct(object, other) \/ MoveAssign(object, other)
    \/ \E object \in Objects, number \in Ports : Bind(object, number) \/ SendTo(object, number)

SocketSpec == SocketInit /\ [][SocketNext]_socketVars
-----------------------------------------------------------------------------
(* Type invariant. *)
SocketTypeOK ==
    /\ alive \subseteq Objects
    /\ fd_ \in [Objects -> Fds \union {kInvalidSocket}]
    /\ use \in [Fds -> {"free", "socket", "foreign"}]
    /\ nonblocking \in [Fds -> BOOLEAN]
    /\ port \in [Fds -> Ports \union {Unbound}]
    /\ waiting \in [Fds -> 0..MaxWaiting]
    /\ error \in BOOLEAN

(* After any sequence of opens, moves, closes and destructions, a           *)
(* descriptor is held by one object at most, which is alive, and is still  *)
(* the socket it opened: none closes a descriptor twice, or a stranger's.  *)
SingleOwner ==
    /\ \A object \in Objects : Valid(object) => object \in alive /\ use[fd_[object]] = "socket"
    /\ \A object, other \in Objects : Valid(object) /\ fd_[object] = fd_[other] => object = other

(* No socket is left open without an object that will close it, failed      *)
(* calls of open_ipv4 and assignments over an open socket included.        *)
NoLeak == \A fd \in Fds : use[fd] = "socket" => \E object \in Objects : fd_[object] = fd

(* The receive loops poll: no socket that an application gets is blocking,  *)
(* on a reused descriptor either.                                          *)
NeverBlocks == \A object \in Objects : Valid(object) => nonblocking[fd_[object]]

(* The three together, over well-typed state. *)
SocketsAreOwned == SocketTypeOK /\ SingleOwner /\ NoLeak /\ NeverBlocks

(* A move hands over the socket with its port and what waits in its queue,  *)
(* also to itself.                                                         *)
MoveKeepsSocket ==
    [][\A object, other \in Objects :
          MoveAssign(object, other) /\ Valid(other) =>
             /\ fd_'[object] = fd_[other]
             /\ use'[fd_[other]] = "socket"
             /\ UNCHANGED <<port, waiting>>]_socketVars
=============================================================================
