---------------------------- MODULE AddressSpace -----------------------------
(***************************************************************************)
(* What programs may count on of memory: every process has a space of its  *)
(* own, a map from addresses to values.  A process changes nothing but its *)
(* own space, keeps what it wrote while the space grows, hands a copy of   *)
(* it to a child, and finds its image there after exec.                    *)
(***************************************************************************)
EXTENDS Integers, Functions, TLC

CONSTANTS Pids, Images      \* Images: what an executable puts where

VARIABLE space      \* the spaces of the processes there are

Init ==
    /\ \E p \in Pids : DOMAIN space = {p}
    /\ \A p \in DOMAIN space : \E image \in Images : Restrict(space[p], DOMAIN image) = image

\* s and t: the spaces before and after a step of p.
Others(s, t, p) == \A q \in DOMAIN s \ {p} : t[q] = s[q]

Write(s, t, p) ==
    /\ DOMAIN t[p] = DOMAIN s[p]
    /\ \E a \in DOMAIN s[p] : \A b \in DOMAIN s[p] \ {a} : t[p][b] = s[p][b]

\* New addresses hold anything.
Grow(s, t, p) ==
    /\ DOMAIN s[p] \subseteq DOMAIN t[p]
    /\ \A a \in DOMAIN s[p] : t[p][a] = s[p][a]

Exec(s, t, p) == \E image \in Images : DOMAIN image \subseteq DOMAIN t[p] /\ Restrict(t[p], DOMAIN image) = image

Fork(s, t, p) == \E q \in Pids \ DOMAIN s : t = (q :> s[p]) @@ s

Exit(s, t, p) == t = Restrict(s, DOMAIN s \ {p})

Next ==
    LET s == space
        t == space'
    IN  \E p \in DOMAIN s :
          \/ /\ DOMAIN t = DOMAIN s
             /\ Others(s, t, p)
             /\ Write(s, t, p) \/ Grow(s, t, p) \/ Exec(s, t, p)
          \/ Fork(s, t, p)
          \/ Exit(s, t, p)

Spec == Init /\ [][Next]_space
=============================================================================
