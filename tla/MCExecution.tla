------------------------------ MODULE MCExecution ------------------------------
(***************************************************************************)
(* Small populations of requests for TLC.  Each assigns the attributes of  *)
(* the requests a, b, c; the configurations choose one.                    *)
(***************************************************************************)
EXTENDS Execution, TLC

CONSTANTS a, b, c,     \* requests
          alice, bob,  \* identities
          s1, s2,      \* sessions
          plain, dir,  \* a plain context and the same one scoped to a directory
          k1, k2       \* execution keys

Everyone(v)   == [r \in Requests |-> v]
SendersOnly   == Everyone("send")
NobodyNames   == Everyone(None)
EveryoneNames == Everyone(s1)
InPlain       == Everyone(plain)
InDir         == Everyone(dir)
OneKey        == Everyone(k1)
AllAlice      == Everyone(alice)
KeysArePlain  == [k \in Keys |-> plain]

(* a and c are alice's, b is bob's.                                        *)
BobIsB == [r \in Requests |-> IF r = b THEN bob ELSE alice]
(* Every request its own execution key, as far as there are keys.          *)
OwnKeys == [r \in Requests |-> IF r = b THEN k2 ELSE k1]
(* c acts on a session through a control method, or forks it.              *)
ControlC == [r \in Requests |-> IF r = c THEN "control" ELSE "send"]
ForkC    == [r \in Requests |-> IF r = c THEN "fork" ELSE "send"]
(* a starts a conversation of its own, the others name a session.          *)
OthersName == [r \in Requests |-> IF r = a THEN None ELSE s1]

(* Where requests have the same attributes their names do not matter.      *)
AnyOrder == Permutations(Requests) \cup Permutations(Sessions)
AandC    == Permutations({a, c})
================================================================================
