-------------------------------- MODULE MCTty ---------------------------------
(***************************************************************************)
(* The console: the terminal (Tty), and the formatted lines the kernel     *)
(* itself writes to the same UART (Stdarg).                                *)
(***************************************************************************)
EXTENDS Tty

CONSTANTS BufferMax, LOG_SIZE

\* Every format of up to four of these characters.  With a "2" before it, the
\* second "2" or "0" of a width asks for more than any buffer here.
Formats == UNION {[1..n -> {"%", "0", "2", "d", "x", "s"}] : n \in 0..4}
    \cup {<<"%", t>> \o <<"%", "0", "3", u, "a">> : t \in {"c", "u"}, u \in {"d", "u", "x"}}

Arguments ==
    { [d |-> -12, u |-> 163, c |-> "z", s |-> <<"s", "t">>],
      [d |-> 0, u |-> 0, c |-> "z", s |-> <<>>],
      [d |-> -9, u |-> 100, c |-> "z", s |-> <<"q", "r", "s">>] }

L == INSTANCE Stdarg

\* vsnprintf and logger_write write what a format means, cut to fit: looked at
\* once, in the initial state.
FormatsRight == TtyInit => L!FormatsRight
=============================================================================
