----------------------------- MODULE PointLease -----------------------------
(***************************************************************************)
(* What DeviceService promises to an override: exclusive control of one    *)
(* point among the application's tasks, on a device that keeps serving.    *)
(*                                                                         *)
(* A task takes a lease on a free point of a serving device.  While it     *)
(* holds the lease no other task commands the control place of the point,  *)
(* and the device does not stop serving; a BACnet client may command it at *)
(* any time.  Every lease ends.                                            *)
(***************************************************************************)
CONSTANTS Devices, Points, Clients, None

VARIABLES lease,    \* who controls each point
          serving,  \* which devices have a protocol application
          author    \* whose command stands at the control place

vars == <<lease, serving, author>>
Keys == Devices \X Points

Init ==
  /\ lease = [k \in Keys |-> None]
  /\ serving \in [Devices -> BOOLEAN]
  /\ author = [k \in Keys |-> None]

Acquire(c, k) ==
  /\ serving[k[1]]
  /\ lease[k] = None
  /\ lease' = [lease EXCEPT ![k] = c]
  /\ UNCHANGED <<serving, author>>

\* c commands the point; giving the place back (w = None) is a command too.
Command(c, k, w) ==
  /\ lease[k] \in {None, c}
  /\ w \in {c, None}
  /\ author' = [author EXCEPT ![k] = w]
  /\ UNCHANGED <<lease, serving>>

Outside(k) ==
  /\ author' = [author EXCEPT ![k] = None]
  /\ UNCHANGED <<lease, serving>>

Free(c, k) ==
  /\ lease[k] = c
  /\ lease' = [lease EXCEPT ![k] = None]
  /\ UNCHANGED <<serving, author>>

Open(d) ==
  /\ serving' = [serving EXCEPT ![d] = TRUE]
  /\ UNCHANGED <<lease, author>>

Close(d) ==
  /\ \A p \in Points : lease[<<d, p>>] = None
  /\ serving' = [serving EXCEPT ![d] = FALSE]
  /\ UNCHANGED <<lease, author>>

Next ==
  \/ \E c \in Clients, k \in Keys :
       Acquire(c, k) \/ Free(c, k) \/ \E w \in {c, None} : Command(c, k, w)
  \/ \E k \in Keys : Outside(k)
  \/ \E d \in Devices : Open(d) \/ Close(d)

Spec == Init /\ [][Next]_vars

\* Every lease ends.
FairSpec ==
  Spec /\ \A k \in Keys : WF_vars(\E c \in Clients : Free(c, k))
=============================================================================
