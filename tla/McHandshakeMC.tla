---------------------------- MODULE McHandshakeMC ----------------------------
(* Programs under test for McHandshake.                                    *)
EXTENDS McHandshake

CONSTANTS w1, w2, w3

Op(type) == <<Operation(type, Nobody)>>
Create(w) == <<Operation("create", w)>>
Join(w) == <<Operation("join", w)>>
None == <<>>
Program(body0, body1, body2, body3) ==
  [r \in Routines |-> CASE r = Main -> body0 [] r = w1 -> body1 [] r = w2 -> body2 [] OTHER -> body3]

\* Main creates workers and joins them, or a worker creates another; two creations race.
WellBehaved == {
  Program(Create(w1) \o Create(w2) \o Join(w1) \o Join(w2), Op("lock"), Op("lock"), None),
  Program(Create(w1) \o Create(w2) \o Join(w1), Create(w3), Op("lock"), Op("lock")),
  Program(Create(w1) \o Create(w2) \o Op("exit"), Op("lock"), Op("exit"), None)}

\* A thread dies, aborts or panics while others are in the middle of something.
Failing == {
  Program(Create(w1) \o Create(w2) \o Join(w1), Op("abort"), Op("lock"), None),
  Program(Create(w1) \o Join(w1), Op("lock") \o Create(w2) \o Op("crash"), Op("lock"), None),
  Program(Create(w1) \o Join(w1), <<Operation("createWithAttr", w2)>> \o Op("lock"), Op("lock"), None)}

Undefined == {Program(Create(w1) \o Join(w1), Op("lock") \o Op("undefined"), None, None)}

\* Main and a worker may block one another; checked with --first-deadlock.
Deadlocking == {Program(Create(w1) \o Op("lock") \o Join(w1), Op("lock"), None, None)}

HandshakePrograms == WellBehaved \cup Failing \cup Undefined \cup Deadlocking
==============================================================================
