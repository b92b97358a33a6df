---------------------------- MODULE ServerBuffer ----------------------------
(***************************************************************************)
(* What SharedOffloadRegion promises to the engine and to the device: the  *)
(* workers of a server see one buffer, which is provided once and of which *)
(* no other server's worker ever has a view; servers follow one another;   *)
(* and the device is told of a worker's view after the worker has it, and  *)
(* asked to forget it before the worker, if it lives, lets go of it.  What *)
(* the device does not forget then, the worker gives up.                   *)
(***************************************************************************)
EXTENDS Naturals

CONSTANTS
    MaxServers,    \* the servers of the host, one after another
    Workers,       \* the workers of one server
    Buffers,       \* what a server's workers may be given
    NoBuffer       \* no buffer yet, no view

VARIABLES
    latest,        \* the number of the latest server
    buffer,        \* the buffer of each server
    view,          \* the buffer that each worker sees
    known,         \* the workers of whom the device knows a view
    givenUp,       \* those among them whose view it did not forget when asked
    ended          \* the workers that have ended

Servers == 1..MaxServers
Users == Servers \X Workers

Init ==
    /\ latest = 0
    /\ buffer = [s \in Servers |-> NoBuffer]
    /\ view = [u \in Users |-> NoBuffer]
    /\ known = {}
    /\ givenUp = {}
    /\ ended = {}

\* A server is started when the workers of the earlier ones have ended.
Begin ==
    /\ latest < MaxServers
    /\ \A u \in Users : u[1] <= latest => u \in ended
    /\ latest' = latest + 1
    /\ UNCHANGED <<buffer, view, known, givenUp, ended>>

\* Its buffer is provided: one that no server had.
Provide(b) ==
    /\ latest \in Servers
    /\ buffer[latest] = NoBuffer
    /\ \A s \in Servers : buffer[s] # b
    /\ buffer' = [buffer EXCEPT ![latest] = b]
    /\ UNCHANGED <<latest, view, known, givenUp, ended>>

Attach(u) ==
    /\ u[1] = latest /\ u \notin ended
    /\ view[u] = NoBuffer /\ buffer[latest] # NoBuffer
    /\ view' = [view EXCEPT ![u] = buffer[latest]]
    /\ UNCHANGED <<latest, buffer, known, givenUp, ended>>

Register(u) ==
    /\ view[u] # NoBuffer
    /\ known' = known \cup {u}
    /\ UNCHANGED <<latest, buffer, view, givenUp, ended>>

Unregister(u) ==
    /\ known' = known \ {u}
    /\ UNCHANGED <<latest, buffer, view, givenUp, ended>>

\* The device fails to forget the view, and nobody asks again.
GiveUp(u) ==
    /\ u \in known
    /\ givenUp' = givenUp \cup {u}
    /\ UNCHANGED <<latest, buffer, view, known, ended>>

Detach(u) ==
    /\ u \in known => u \in givenUp
    /\ view' = [view EXCEPT ![u] = NoBuffer]
    /\ UNCHANGED <<latest, buffer, known, givenUp, ended>>

\* However a worker ends, the kernel takes back its view and what the device knows.
End(u) ==
    /\ u[1] <= latest
    /\ ended' = ended \cup {u}
    /\ view' = [view EXCEPT ![u] = NoBuffer]
    /\ known' = known \ {u}
    /\ givenUp' = givenUp \ {u}
    /\ UNCHANGED <<latest, buffer>>

Next ==
    \/ Begin
    \/ \E b \in Buffers : Provide(b)
    \/ \E u \in Users :
         Attach(u) \/ Register(u) \/ Unregister(u) \/ GiveUp(u) \/ Detach(u) \/ End(u)

Spec == Init /\ [][Next]_<<latest, buffer, view, known, givenUp, ended>>

-----------------------------------------------------------------------------

TypeOK ==
    /\ latest \in 0..MaxServers
    /\ buffer \in [Servers -> Buffers \cup {NoBuffer}]
    /\ view \in [Users -> Buffers \cup {NoBuffer}]
    /\ known \subseteq Users
    /\ givenUp \subseteq Users
    /\ ended \subseteq Users

(* Every view is of the buffer of the worker's own server, and only a      *)
(* worker of the latest server, who lives, has one; what the device knows  *)
(* and no worker has given up is a view.                                   *)
OwnBuffer ==
    /\ \A u \in Users : view[u] # NoBuffer =>
          u[1] = latest /\ u \notin ended /\ view[u] = buffer[u[1]]
    /\ \A u \in known \ givenUp : view[u] # NoBuffer

(* No two servers ever have one buffer.                                    *)
BuffersDiffer ==
    \A s, t \in Servers : buffer[s] = buffer[t] => s = t \/ buffer[s] = NoBuffer

=============================================================================
