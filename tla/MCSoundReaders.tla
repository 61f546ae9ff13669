---------------------------- MODULE MCSoundReaders ----------------------------
(* Small instances of SoundReaders for TLC: every composition of two readers over two *)
(* buffers that Composes allows. *)
EXTENDS SoundReaders, TLC

A == Buffer(1, 3)
B == Buffer(2, 2)

Over(s) ==
    {Loop(s, 1), Loop(s, 2), Limiter(s, 1, 2), Limiter(s, 1, -1), Limiter(s, 0, 9), Delay(s, 3), Reversed(s),
     PingPong(s), Double(s, B), Double(B, s), Superpose(s, B), Superpose(B, s)}

Once == {A, Loop(A, -1), Loop(A, 0)} \cup Over(A)

MCSounds == {s \in Once \cup UNION {Over(s) : s \in {t \in Once : ~Endless(t)}} : Composes(s)}
MCSeeks == [s \in MCSounds |-> 0 .. Reach(s)]
=============================================================================
