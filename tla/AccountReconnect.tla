-------------------------- MODULE AccountReconnect --------------------------
(***************************************************************************)
(* How an account gets its connection back: the ConnError, Connect,        *)
(* Reconnect and Disconnect cases of AccountView.onMessage                 *)
(* (app/account.go), the commands :connect and :disconnect                 *)
(* (commands/account/connection.go) and the answers of a worker.           *)
(*                                                                         *)
(* The delay is a time.Duration, an int64 that counts nanoseconds.  TLC    *)
(* has no integers of that size: a large number is a tuple of limbs of      *)
(* four decimal digits, the last ones first.                                *)
(***************************************************************************)
EXTENDS Integers, SequencesExt

CONSTANTS
  MaxWaits,     \* values of reconnect-maxwait, in seconds
  MaxRetries,   \* bound on the attempts in a row
  MaxLosses,    \* bound on the connections lost
  MaxUser       \* bound on the commands of the user

ASSUME WaitsAssumption == MaxWaits \subseteq 0..198
ASSUME BoundsAssumption == MaxRetries \in 1..50 /\ MaxLosses \in Nat /\ MaxUser \in Nat

-----------------------------------------------------------------------------
(* Numbers of Width limbs, enough for 18^50. *)

Width == 16
Base  == 10000

OfNat(n) == [i \in 1..Width |-> IF i > 2 THEN 0 ELSE (n \div Base^(i - 1)) % Base]

Times(d, k) ==
  FoldLeft(LAMBDA a, x : [out   |-> Append(a.out, (x * k + a.carry) % Base),
                          carry |-> (x * k + a.carry) \div Base],
           [out |-> <<>>, carry |-> 0], d).out

Minus(d, e) ==
  FoldLeftDomain(LAMBDA a, i : [out    |-> Append(a.out, (Base + d[i] - e[i] - a.borrow) % Base),
                                borrow |-> IF d[i] < e[i] + a.borrow THEN 1 ELSE 0],
                 [out |-> <<>>, borrow |-> 0], d).out

Less(d, e) == \E i \in 1..Width : d[i] < e[i] /\ \A j \in (i + 1)..Width : d[j] = e[j]

(* d divided by 10^n, rounded down. *)
Limb(d, i) == IF i \in 1..Width THEN d[i] ELSE 0
Shifted(d, n) ==
  LET q == n \div 4
      t == 10^(n % 4)
  IN [i \in 1..Width |-> Limb(d, i + q) \div t + (Limb(d, i + q + 1) % t) * (Base \div t)]

One == OfNat(1)
TwoTo63 == [i \in 1..Width |-> IF i > 5 THEN 0 ELSE <<5808, 5477, 368, 3372, 922>>[i]]
TwoTo64 == [i \in 1..Width |-> IF i > 5 THEN 0 ELSE <<1616, 955, 737, 6744, 1844>>[i]]

(* 10^9 d *)
Nanoseconds(d) == Times([i \in 1..Width |-> Limb(d, i - 2)], 10)

(* The value of an int64: Negative, or its limbs. *)
Negative == <<>>
Int64(d) ==
  LET k == CHOOSE k \in 0..99 : ~Less(d, Times(TwoTo64, k)) /\ Less(d, Times(TwoTo64, k + 1))
      r == Minus(d, Times(TwoTo64, k))
  IN IF Less(r, TwoTo63) THEN r ELSE Negative

-----------------------------------------------------------------------------
VARIABLES
  maxWait,    \* AccountConfig.ReconnectMaxWait
  retries,    \* AccountView.reconnectRetries
  power,      \* 18^retries
  wait,       \* the last delay
  timers,     \* number of timers that run
  actions,    \* Worker.actions
  messages,   \* WorkerMessages
  up,         \* whether the worker has a connection
  wanted,     \* history: the last of :connect and :disconnect that was done
  losses, commands

vars == <<maxWait, retries, power, wait, timers, actions, messages, up, wanted, losses, commands>>

Init ==
  /\ maxWait \in MaxWaits
  /\ retries = 0 /\ power = One /\ wait = OfNat(0) /\ timers = 0
  /\ actions = <<"connect">> /\ messages = <<>>
  /\ up = FALSE /\ wanted = "connect" /\ losses = 0 /\ commands = 0

-----------------------------------------------------------------------------
(* AccountView.onMessage *)

(* 1.8^n seconds; the float is rounded down: 1.8^n = 18^n / 10^n. *)
Backoff(pow, n) == Int64(Nanoseconds(Shifted(pow, n)))

Capped(w) == IF w # Negative /\ Less(Nanoseconds(OfNat(maxWait)), w)
             THEN Nanoseconds(OfNat(maxWait)) ELSE w

Received(m) == messages # <<>> /\ Head(messages) = m /\ messages' = Tail(messages)

(* Bugs: the attempt is counted first; the first loss is not retried. *)
HandleConnErrorCountsFirst ==
  /\ Received("error") /\ retries < MaxRetries
  /\ retries' = retries + 1 /\ power' = Times(power, 18)
  /\ wait' = Capped(Backoff(power', retries + 1))
  /\ timers' = timers + 1
  /\ UNCHANGED <<maxWait, actions, up, wanted, losses, commands>>

HandleConnErrorWaits ==
  /\ Received("error") /\ retries < MaxRetries
  /\ wait' = IF retries > 0 THEN Capped(Backoff(power, retries)) ELSE OfNat(0)
  /\ retries' = retries + 1 /\ power' = Times(power, 18)
  /\ timers' = IF retries > 0 THEN timers + 1 ELSE timers
  /\ UNCHANGED <<maxWait, actions, up, wanted, losses, commands>>

HandleConnError ==
  /\ Received("error") /\ retries < MaxRetries
  /\ wait' = IF retries > 0 THEN Capped(Backoff(power, retries)) ELSE OfNat(0)
  /\ retries' = retries + 1 /\ power' = Times(power, 18)
  /\ timers' = timers + 1
  /\ UNCHANGED <<maxWait, actions, up, wanted, losses, commands>>

(* Done of Connect or Reconnect. *)
HandleConnected ==
  /\ Received("connected")
  /\ retries' = 0 /\ power' = One
  /\ UNCHANGED <<maxWait, wait, timers, actions, up, wanted, losses, commands>>

TimerFires ==
  /\ timers > 0
  /\ timers' = timers - 1
  /\ actions' = Append(actions, "reconnect")
  /\ UNCHANGED <<maxWait, retries, power, wait, messages, up, wanted, losses, commands>>

Command(kind) ==
  /\ commands < MaxUser
  /\ commands' = commands + 1
  /\ actions' = Append(actions, kind)
  /\ UNCHANGED <<maxWait, retries, power, wait, timers, messages, up, wanted, losses>>

-----------------------------------------------------------------------------
(* The worker *)

Takes(kind) == actions # <<>> /\ Head(actions) = kind /\ actions' = Tail(actions)

Wants(kind) == wanted' = IF kind = "reconnect" THEN wanted ELSE kind

(* Connect of a connected worker is refused. *)
Connect(kind) ==
  /\ Takes(kind)
  /\ up' = TRUE
  /\ messages' = IF kind = "connect" /\ up THEN messages ELSE Append(messages, "connected")
  /\ Wants(kind)
  /\ UNCHANGED <<maxWait, retries, power, wait, timers, losses, commands>>

ConnectFails(kind) ==
  /\ Takes(kind)
  /\ messages' = Append(messages, "error")
  /\ Wants(kind)
  /\ kind = "connect" => ~up
  /\ UNCHANGED <<maxWait, retries, power, wait, timers, up, losses, commands>>

Disconnect ==
  /\ Takes("disconnect")
  /\ up' = FALSE
  /\ Wants("disconnect")
  /\ UNCHANGED <<maxWait, retries, power, wait, timers, messages, losses, commands>>

(* The loss is reported once or, by observer and idler, twice. *)
ConnectionLost ==
  /\ up /\ losses < MaxLosses
  /\ losses' = losses + 1
  /\ up' = FALSE
  /\ messages' \in {Append(messages, "error"), messages \o <<"error", "error">>}
  /\ UNCHANGED <<maxWait, retries, power, wait, timers, actions, wanted, commands>>

-----------------------------------------------------------------------------
Next ==
  \/ HandleConnError \/ HandleConnected \/ TimerFires
  \/ \E kind \in {"connect", "disconnect"} : Command(kind)
  \/ \E kind \in {"connect", "reconnect"} : Connect(kind) \/ ConnectFails(kind)
  \/ Disconnect \/ ConnectionLost

Spec == Init /\ [][Next]_vars

-----------------------------------------------------------------------------
TypeOK ==
  /\ maxWait \in MaxWaits /\ retries \in 0..MaxRetries
  /\ power \in [1..Width -> 0..(Base - 1)]
  /\ wait = Negative \/ wait \in [1..Width -> 0..(Base - 1)]
  /\ timers \in Nat
  /\ \A i \in DOMAIN actions : actions[i] \in {"connect", "reconnect", "disconnect"}
  /\ \A i \in DOMAIN messages : messages[i] \in {"error", "connected"}
  /\ up \in BOOLEAN /\ wanted \in {"connect", "disconnect"}
  /\ losses \in 0..MaxLosses /\ commands \in 0..MaxUser

(* The delay before the n-th attempt of an outage is 1.8^n seconds and at   *)
(* most MaxWait, the first attempt is made at once.                        *)
Expected(n) ==
  IF n = 0 THEN 0
  ELSE IF n > 9 \/ 9^n \div 5^n > maxWait THEN maxWait ELSE 9^n \div 5^n

WaitRight ==
  TypeOK /\ (retries > 0 => wait = Nanoseconds(OfNat(Expected(retries - 1))))

(* As long as the user wants a connection and there is none, an attempt to  *)
(* connect is under way.                                                   *)
KeepsTrying ==
  up \/ wanted = "disconnect" \/ timers > 0
     \/ (\E i \in DOMAIN actions : actions[i] # "disconnect")
     \/ (\E i \in DOMAIN messages : messages[i] = "error")
=============================================================================
