----------------------------- MODULE GeeCodec -----------------------------
(***************************************************************************)
(* One connection of GeeRPC with the GobCodec at both of its ends          *)
(* (codec/gob.go).  A message is a header and a body, encoded one after    *)
(* the other into a bufio.Writer; what the writer passes on is a stream of *)
(* such parts.  The connection may be lost, and either end may be closed.  *)
(***************************************************************************)
EXTENDS Integers, Sequences

VARIABLES
  open,    \* open[e]: end e has not been closed by its owner
  lost,    \* the network has failed
  stream,  \* stream[e]: the parts written by e, not yet read by its peer
  broken   \* broken[e]: the bufio.Writer of e keeps an error of an earlier Flush

wireVars == <<open, lost, stream, broken>>

Ends    == {"client", "server"}
Peer(e) == IF e = "client" THEN "server" ELSE "client"

WireInit ==
  /\ open = [e \in Ends |-> TRUE]
  /\ lost = FALSE
  /\ stream = [e \in Ends |-> <<>>]
  /\ broken = [e \in Ends |-> FALSE]

\* GobCodec.Close, and conn.Close.
CloseEnd(e) == open' = [open EXCEPT ![e] = FALSE]

(***************************************************************************)
(* GobCodec.Write passes on one part.  When the connection does not work,  *)
(* the error may show in the deferred Flush, where it is ignored (the      *)
(* writer keeps it and fails the next Write), or already in Encode (a      *)
(* message larger than the buffer); only the latter makes Write fail and   *)
(* close the connection.  What is sent to an end that is closed is lost,   *)
(* and the writer may not notice.                                          *)
(***************************************************************************)
Faulty(e) == ~ open[e] \/ ~ open[Peer(e)] \/ lost

Passes(e, part) ==
  /\ ~ broken[e] /\ open[e] /\ ~ lost
  /\ stream' = IF open[Peer(e)] THEN [stream EXCEPT ![e] = Append(@, part)] ELSE stream
  /\ UNCHANGED <<open, lost, broken>>

FlushFails(e) ==
  /\ ~ broken[e] /\ Faulty(e)
  /\ broken' = [broken EXCEPT ![e] = TRUE]
  /\ UNCHANGED <<open, lost, stream>>

WriteFails(e) ==
  /\ broken[e] \/ Faulty(e)
  /\ CloseEnd(e)
  /\ UNCHANGED <<lost, stream, broken>>

(***************************************************************************)
(* Decode takes the next part.  The decoder reads ahead, so that it may    *)
(* still have parts when the connection no longer works.                   *)
(***************************************************************************)
CanRead(e)   == stream[Peer(e)] # <<>>
NextPart(e)  == Head(stream[Peer(e)])
Consume(e)   == /\ stream' = [stream EXCEPT ![Peer(e)] = Tail(@)]
                /\ UNCHANGED <<open, lost, broken>>
ReadFails(e) == \/ ~ open[e] \/ lost
                \/ ~ open[Peer(e)] /\ stream[Peer(e)] = <<>>

\* The network fails.
Lose ==
  /\ ~ lost
  /\ lost' = TRUE
  /\ UNCHANGED <<open, stream, broken>>
=============================================================================
