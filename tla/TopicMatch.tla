----------------------------- MODULE TopicMatch -----------------------------
(***************************************************************************)
(* Exchange::IsFit (logicServer/logicServer.cpp): whether a message's      *)
(* routing key fits the key a queue is bound with, in a topic exchange.    *)
(* A key is the sequence of what stands between its dots, some of it       *)
(* empty.  The wildcards are looked for in the routing key only.           *)
(***************************************************************************)
EXTENDS Integers, Sequences, SequencesExt, SeqOps

\* The empty word, between two dots, counts for nothing.
Words(key) == Keep(key, ToSet(key) \ {""})

\* Whether the first i words of the binding key and the first j of the routing
\* key fit.  Row and column 0 keep their initial value, false but in the corner.
Cell(dp, i, j, binding, routing) ==
  IF i = 0 \/ j = 0 THEN i = 0 /\ j = 0
  ELSE IF routing[j] = "#" THEN dp[<<i - 1, j>>] \/ dp[<<i, j - 1>>]
  ELSE (routing[j] = "*" \/ binding[i] = routing[j]) /\ dp[<<i - 1, j - 1>>]

IsFit(routingKey, bindingKey) ==
  LET routing == Words(routingKey)
      binding == Words(bindingKey)
      dp[at \in (0 .. Len(binding)) \X (0 .. Len(routing))] ==
        Cell(dp, at[1], at[2], binding, routing)
  IN dp[<<Len(binding), Len(routing)>>]
-----------------------------------------------------------------------------
(* The meaning of the comments at 282-284: * replaces one word, # any number *)
(* of them.  The pattern's words cut the other key into consecutive parts.   *)

Cuts(pattern, text) ==
  {f \in [0 .. Len(pattern) -> 0 .. Len(text)] : f[0] = 0 /\ f[Len(pattern)] = Len(text)}

Replaces(word, part) ==
  \/ word = "#"
  \/ word = "*" /\ Len(part) = 1
  \/ part = <<word>>

Matches(pattern, text) ==
  \E f \in Cuts(pattern, text) : \A p \in 1 .. Len(pattern) :
    f[p - 1] <= f[p] /\ Replaces(pattern[p], SubSeq(text, f[p - 1] + 1, f[p]))

\* Where IsFit departs from that meaning: a routing key that begins with #, even
\* # alone, fits no key, because the first row and the first column of the table
\* are never filled in.
LeadingHash(key) == Words(key) # <<>> /\ Words(key)[1] = "#"
=============================================================================
