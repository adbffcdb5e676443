------------------------------ MODULE Channel ------------------------------
(***************************************************************************)
(* One channel under every sequence of the calls the server makes on it.   *)
(***************************************************************************)
EXTENDS Messenger

CONSTANT Sockets

VARIABLES
  socket_ids,   \* the channel
  call,         \* the last call made: <<function>> or <<function, socket>>
  reached       \* the sockets that call sent to, in order

channelVars == <<socket_ids, call, reached>>

Init == socket_ids = <<>> /\ call = <<"none">> /\ reached = <<>>

Subscribe(s) ==
  /\ call' = <<"subscribe", s>>
  /\ socket_ids' = subscribe_to_channel(socket_ids, s)
  /\ reached' = <<>>

Unsubscribe(s) ==
  /\ call' = <<"unsubscribe", s>>
  /\ socket_ids' = unsubscribe_from_channel(socket_ids, s)
  /\ reached' = <<>>

Forward ==
  /\ call' = <<"forward">>
  /\ reached' = forward_targets(socket_ids)
  /\ UNCHANGED socket_ids

Next == Forward \/ \E s \in Sockets : Subscribe(s) \/ Unsubscribe(s)

Spec == Init /\ [][Next]_channelVars

-----------------------------------------------------------------------------
Calls == {<<"none">>, <<"forward">>} \union ({"subscribe", "unsubscribe"} \X Sockets)

\* The array stays within its bound and holds sockets only.
TypeOK ==
  /\ socket_ids \in Seq(Sockets) /\ Len(socket_ids) <= MaxSubscriptions
  /\ reached \in Seq(Sockets)
  /\ call \in Calls

\* No socket is in the array twice, which is what makes the removal of one
\* entry an unsubscription and lets no listener hear a message twice.
NoDuplicates ==
  /\ \A i, j \in DOMAIN socket_ids : socket_ids[i] = socket_ids[j] => i = j
  /\ \A i, j \in DOMAIN reached : reached[i] = reached[j] => i = j

S == INSTANCE ChannelSet WITH members <- ToSet(socket_ids),
                              heard   <- ToSet(reached)

\* The array with its swap-with-last removal is a set of bounded size: each
\* call adds or drops its own socket and no other, and a forwarded message is
\* heard by subscribers only, one of them at most missing it.
ImplementsSet == S!SetSpec
=============================================================================
