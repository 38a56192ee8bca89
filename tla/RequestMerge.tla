---------------------------- MODULE RequestMerge ----------------------------
(***************************************************************************)
(* What ConnectServer promises the broker: it merges the streams of its    *)
(* connections into one queue of whole requests.  The requests of a        *)
(* connection come out in the order they were sent, none is lost, made up  *)
(* or repeated, and a stream is cut short only with its connection.  The   *)
(* promise ends where a receive writes past its buffer (Break).            *)
(***************************************************************************)
EXTENDS Integers, Sequences

CONSTANTS Conns,  \* the connections
          Parts   \* units of a request

VARIABLES sent,   \* connection -> requests its client has sent
          closed, \* the connections that have ended
          stream, \* connection -> units sent and not yet merged
          out,    \* the requests merged and not yet taken by the broker
          broken  \* whether the promise has ended

mergeVars == <<sent, closed, stream, out, broken>>

\* The units of the nth request of c.
Units(c, n) == [k \in 1 .. Parts |-> [conn |-> c, request |-> n, part |-> k]]

Init == /\ sent = [c \in Conns |-> 0]
        /\ closed = {}
        /\ stream = [c \in Conns |-> <<>>]
        /\ out = <<>>
        /\ broken = FALSE

Send(c) == /\ c \notin closed
           /\ sent' = [sent EXCEPT ![c] = @ + 1]
           /\ stream' = [stream EXCEPT ![c] = @ \o Units(c, sent[c] + 1)]
           /\ UNCHANGED <<closed, out>>

\* A connection ends, or what it still had under way is lost after that.
Cut(c) == /\ UNCHANGED <<sent, out>>
          /\ closed' = closed \cup {c}
          /\ \E k \in 0 .. Len(stream[c]) :
               stream' = [stream EXCEPT ![c] = SubSeq(@, 1, k)]

\* Only a whole request goes into the queue.
Merge(c) == /\ Len(stream[c]) >= Parts
            /\ LET request == Units(c, stream[c][1].request) IN
               /\ SubSeq(stream[c], 1, Parts) = request
               /\ out' = Append(out, request)
            /\ stream' = [stream EXCEPT ![c] = SubSeq(@, Parts + 1, Len(@))]
            /\ UNCHANGED <<sent, closed>>

Take == /\ out # <<>>
        /\ out' = Tail(out)
        /\ UNCHANGED <<sent, closed, stream>>

Kept == \/ \E c \in Conns : Send(c) \/ Cut(c) \/ Merge(c)
        \/ Take

Break == broken'

Next == (Kept /\ UNCHANGED broken) \/ Break

Spec == Init /\ [][Next]_mergeVars
=============================================================================
