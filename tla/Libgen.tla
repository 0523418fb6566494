------------------------------- MODULE Libgen --------------------------------
(***************************************************************************)
(* Path strings: dirname and basename (kernel/lib/libgen.c), the walk of   *)
(* lookup_dentry over a path (kernel/dentry.c), and the fixed fields that  *)
(* hold names (kernel/lib/string.c).  A string is a sequence of            *)
(* characters without its NUL, positions start at 1; a char array is a     *)
(* sequence with NUL in it.                                                *)
(***************************************************************************)
EXTENDS Integers, FiniteSets, SequencesExt

CONSTANTS
    Chars,          \* the characters other than the slash
    MaxPath,        \* bound: the length of a path
    NAME_MAX        \* the size of a name field

NUL == ""
Strings == SeqOf(Chars \cup {"/"}, MaxPath)

\* The last position up to i that satisfies a test, 0 if there is none: the
\* loops `while (test) { if (!i--) ... }`.
last_slash(p, i) == Max({0} \cup {k \in 1..i : p[k] = "/"})
last_other(p, i) == Max({0} \cup {k \in 1..i : p[k] # "/"})

\* Mutant: slashes at the end are not skipped.
dirname_once(p) ==
    LET end == last_other(p, last_slash(p, Len(p)))
    IN  IF end = 0 THEN <<"/">> ELSE SubSeq(p, 1, end)

dirname(p) ==
    LET base == last_other(p, Len(p))
        slash == last_slash(p, base)
        end == last_other(p, slash)
    IN  CASE p = <<>>   -> <<".">>
          [] base = 0   -> <<"/">>
          [] slash = 0  -> <<".">>
          [] end = 0    -> <<"/">>
          [] OTHER      -> SubSeq(p, 1, end)

basename(p) ==
    LET end == Max({1, last_other(p, Len(p))})
        first == last_slash(p, end - 1) + 1
    IN  IF p = <<>> THEN <<".">> ELSE SubSeq(p, first, end)

\* strchrnul: the first slash from i on, or the position of the NUL.
strchrnul(p, i) == Min({k \in i..Len(p) : p[k] = "/"} \cup {Len(p) + 1})

\* The names lookup_dentry takes from p, from the slash at i on.
RECURSIVE walk(_, _)
walk(p, i) ==
    LET pn == strchrnul(p, i + 1)
    IN  CASE i > Len(p)     -> <<>>
          [] pn = i + 1     -> walk(p, pn)
          [] OTHER          -> <<SubSeq(p, i + 1, pn - 1)>> \o walk(p, pn)

\* strncpy into a cleared field, and strncmp of two fields: both stop at NAME_MAX.
strncpy(name) == [k \in 1..NAME_MAX |-> IF k <= Len(name) THEN name[k] ELSE NUL]
strncmp_same(f, g) ==
    \A k \in 1..NAME_MAX : (\A j \in 1..(k - 1) : f[j] # NUL \/ g[j] # NUL) => f[k] = g[k]

-----------------------------------------------------------------------------
\* The names of a path, by definition: its longest runs without a slash.
Names(p) ==
    LET starts == {k \in 1..Len(p) : p[k] # "/" /\ (k = 1 \/ p[k - 1] = "/")}
        run(k) == SubSeq(p, k, Max({j \in k..Len(p) : \A m \in k..j : p[m] # "/"}))
        order == SetToSortSeq(starts, <)
    IN  [n \in 1..Cardinality(starts) |-> run(order[n])]

\* For every absolute path, however many slashes it has and wherever, lookup
\* walks the names of the path, dirname is a path to all but the last of them
\* and basename is the last: create and mkdir put the new name exactly where
\* a later lookup of the whole path searches for it.  And two names of up to
\* NAME_MAX characters are the same in their fields only if they are the same.
PathsSplit ==
    /\ \A p \in Strings : p # <<>> /\ p[1] = "/" =>
         /\ walk(p, 1) = Names(p)
         /\ Names(p) # <<>> =>
              /\ walk(dirname(p), 1) = Front(Names(p)) /\ dirname(p)[1] = "/"
              /\ basename(p) = Last(Names(p))
    /\ \A a, b \in SeqOf(Chars, NAME_MAX) : strncmp_same(strncpy(a), strncpy(b)) <=> a = b
=============================================================================
