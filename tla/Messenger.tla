----------------------------- MODULE Messenger -----------------------------
(***************************************************************************)
(* The channel operations of utils/game_messanger.c.  A channel is the     *)
(* used part of its socket_ids array, a sequence of subscription_count     *)
(* sockets.                                                                *)
(***************************************************************************)
EXTENDS Integers, SequencesExt

CONSTANT MaxSubscriptions   \* MAX_SUBSCRIPTIONS, the length of the array

ASSUME SubscriptionsAssumption == MaxSubscriptions \in Nat \ {0}

is_subscribed(channel, s) == \E i \in DOMAIN channel : channel[i] = s

\* Mutant: the array is not searched for the socket.
subscribe_twice(channel, s) ==
  IF Len(channel) < MaxSubscriptions THEN Append(channel, s) ELSE channel

\* Mutant: the bound is not looked at.
subscribe_unbounded(channel, s) ==
  IF ~is_subscribed(channel, s) THEN Append(channel, s) ELSE channel

\* Mutant: the last slot of the array is never used.
subscribe_off_by_one(channel, s) ==
  IF Len(channel) < MaxSubscriptions - 1 /\ ~is_subscribed(channel, s)
  THEN Append(channel, s)
  ELSE channel

\* A full array refuses before it looks for the socket; a subscribed socket
\* is not added again.
subscribe_to_channel(channel, s) ==
  IF Len(channel) < MaxSubscriptions /\ ~is_subscribed(channel, s)
  THEN Append(channel, s)
  ELSE channel

\* Mutant: the count goes down and the entry stays where it was.
unsubscribe_cuts_last(channel, s) ==
  IF is_subscribed(channel, s) THEN SubSeq(channel, 1, Len(channel) - 1) ELSE channel

\* Mutant: the slot is cleared and stays in the array.
unsubscribe_clears_slot(channel, s) ==
  [i \in DOMAIN channel |-> IF channel[i] = s THEN 0 ELSE channel[i]]

\* The first entry of the socket takes the value of the last one, which is
\* cut off.
unsubscribe_from_channel(channel, s) ==
  LET i == SelectInSeq(channel, LAMBDA t : t = s)
      n == Len(channel)
  IN  IF i = 0 THEN channel
      ELSE SubSeq([channel EXCEPT ![i] = channel[n]], 1, n - 1)

\* The sockets forward_message sends to: its loop starts at index 1.
forward_targets(channel) == SubSeq(channel, 2, Len(channel))
=============================================================================
