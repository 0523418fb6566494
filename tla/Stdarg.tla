-------------------------------- MODULE Stdarg --------------------------------
(***************************************************************************)
(* Formatted output: vsnprintf of kernel/lib/stdarg.c and the lines        *)
(* kernel/logger.c writes with it.  A format is a sequence of characters;  *)
(* every argument is there as an int, an unsigned int, a character and a   *)
(* string, and each conversion takes the one it is for.                    *)
(*                                                                         *)
(* vsnprintf is a fold over the format of a record s: its state, the       *)
(* placeholder, the index, the memory from the buffer on, the arguments    *)
(* used, and whether it returned EOF.                                      *)
(***************************************************************************)
EXTENDS Integers, SequencesExt

CONSTANTS
    Formats,        \* the formats looked at
    Arguments,      \* the arguments looked at: d, u, c, s
    BufferMax,      \* bound on the sizes looked at
    LOG_SIZE        \* sizeof(str) in logger_write

EOF == -1
Garbage == "?"
Malformed == <<"malformed">>
Digits == <<"0", "1", "2", "3", "4", "5", "6", "7", "8", "9", "a", "b", "c", "d", "e", "f">>
Value(c) == (CHOOSE k \in 1..16 : Digits[k] = c) - 1
IsDigit(c) == \E k \in 1..10 : Digits[k] = c
Times(n, c) == IF n < 1 THEN <<>> ELSE [k \in 1..n |-> c]

-----------------------------------------------------------------------------
(* stdarg.c *)

\* Mutant: one past the buffer.
assign_past(s, index, c) == IF index <= s.size THEN [s EXCEPT !.mem[index] = c] ELSE s

assign(s, index, c) == IF index < s.size THEN [s EXCEPT !.mem[index] = c] ELSE s

emit(s, c) == [assign(s, s.index, c) EXCEPT !.index = @ + 1]

\* compute_hex_width and the two for decimals, without the sign.
RECURSIVE compute_width(_, _)
compute_width(v, base) == 1 + IF v \div base = 0 THEN 0 ELSE compute_width(v \div base, base)

\* The loops that store the digits from the last one on.
RECURSIVE store_digits(_, _, _, _)
store_digits(s, rindex, v, base) ==
    LET rest(t) == IF v \div base = 0 THEN t ELSE store_digits(t, rindex - 1, v \div base, base)
    IN  rest(assign(s, rindex, Digits[(v % base) + 1]))

\* The n digits of v from the index on.
digits(s, n, v, base) == [store_digits(s, s.index + (n - 1), v, base) EXCEPT !.index = @ + n]

format_unsigned(s, v, base) ==
    LET width == compute_width(v, base)
    IN  digits(FoldLeft(emit, s, Times(s.width - width, IF s.zero THEN "0" ELSE " ")), width, v, base)

format_hex(s, v) == format_unsigned(s, v, 16)
format_unsigned_dec(s, v) == format_unsigned(s, v, 10)

\* The sign goes before zeros and after spaces.
format_signed_dec(s, v) ==
    LET a == IF v < 0 THEN -v ELSE v
        sign == IF v < 0 THEN <<"-">> ELSE <<>>
        n == compute_width(a, 10)
        pad == Times(s.width - (n + Len(sign)), IF s.zero THEN "0" ELSE " ")
    IN  digits(FoldLeft(emit, s, IF s.zero THEN sign \o pad ELSE pad \o sign), n, a, 10)

done(s) == [s EXCEPT !.st = "STRING", !.width = 0, !.zero = FALSE, !.used = @ + 1]
fails(s) == [s EXCEPT !.eof = TRUE]
padded(s, text) == done(FoldLeft(emit, s, Times(s.width - Len(text), " ") \o text))

\* STATE_PLACEHOLDER_TYPE: what c makes of the placeholder read so far.
conversion(s, c, args) ==
    LET arg == args[s.used + 1]
        refused == CASE c = "%" -> s.zero \/ s.width # 0
                     [] c \in {"c", "s"} -> s.zero
                     [] c \in {"x", "d", "u"} -> s.zero /\ s.width = 0
                     [] OTHER -> TRUE
    IN  IF refused THEN fails(s)
        ELSE CASE c = "%" -> [emit(s, c) EXCEPT !.st = "STRING"]
               [] c = "c" -> padded(s, <<arg.c>>)
               [] c = "s" -> padded(s, arg.s)
               [] c = "x" -> done(format_hex(s, arg.u))
               [] c = "d" -> done(format_signed_dec(s, arg.d))
               [] c = "u" -> done(format_unsigned_dec(s, arg.u))

\* One character of the format.  A width of 0 cannot be read: its 0 is the flag.
next_char(s, c, args) ==
    IF s.eof THEN s
    ELSE CASE s.st = "STRING" -> IF c = "%" THEN [s EXCEPT !.st = "FLAG"] ELSE emit(s, c)
           [] s.st = "FLAG" /\ c = "0" -> IF s.zero THEN fails(s) ELSE [s EXCEPT !.zero = TRUE]
           [] OTHER -> IF IsDigit(c) THEN [s EXCEPT !.width = @ * 10 + Value(c), !.st = "WIDTH"]
                       ELSE conversion(s, c, args)

\* Every size here is at most INT_MAX.
vsnprintf(mem, size, format, args) ==
    LET turn(s, c) == next_char(s, c, args)
        start == [st |-> "STRING", width |-> 0, zero |-> FALSE, index |-> 0, mem |-> mem,
                  size |-> size, used |-> 0, eof |-> FALSE]
        ended(s) == IF size = 0 THEN s ELSE assign(s, Min({s.index, size - 1}), "")
        returns(s) == IF s.eof \/ s.st # "STRING" THEN [r |-> EOF, mem |-> s.mem]
                      ELSE [r |-> s.index, mem |-> ended(s).mem]
    IN  returns(FoldLeft(turn, start, format))

\* The characters up to the end of the string.
string(mem) == LET n == CHOOSE k \in DOMAIN mem : mem[k] = "" /\ \A j \in 0..(k - 1) : mem[j] # ""
               IN  [k \in 1..n |-> mem[k - 1]]

\* logger_write, for a level that is not filtered out: what goes to uart_write.
logger_write(mem, format, args) ==
    LET line(m, str) == [mem |-> [m EXCEPT ![Len(str)] = "\n", ![Len(str) + 1] = ""],
                         sent |-> Append(str, "\n")]
        formatted(t) == IF t.r = EOF THEN [mem |-> t.mem, sent |-> <<>>] ELSE line(t.mem, string(t.mem))
    IN  formatted(vsnprintf(mem, LOG_SIZE - 1, format, args))

-----------------------------------------------------------------------------
(* What a format means *)

RECURSIVE Power(_, _)
Power(b, n) == IF n = 0 THEN 1 ELSE b * Power(b, n - 1)

Numeral(v, base) ==
    LET n == CHOOSE k \in 1..10 : Power(base, k) > v /\ (k = 1 \/ Power(base, k - 1) <= v)
    IN  [k \in 1..n |-> Digits[((v \div Power(base, n - k)) % base) + 1]]

\* A conversion is %, an optional 0, an optional width and a letter; 0 needs a
\* width and a number.  Anything else is Malformed.
Spelled(zero, width, c, arg) ==
    LET body == CASE c = "x" -> Numeral(arg.u, 16) [] c = "u" -> Numeral(arg.u, 10)
                  [] c = "d" -> Numeral(IF arg.d < 0 THEN -arg.d ELSE arg.d, 10)
                  [] c = "c" -> <<arg.c>> [] c = "s" -> arg.s
        sign == IF c = "d" /\ arg.d < 0 THEN <<"-">> ELSE <<>>
        room == width - Len(sign \o body)
    IN  IF zero THEN sign \o Times(room, "0") \o body ELSE Times(room, " ") \o sign \o body

RECURSIVE Meaning(_, _)
Meaning(f, args) ==
    LET zero == Len(f) > 1 /\ f[2] = "0"
        from == IF zero THEN 3 ELSE 2
        to == CHOOSE k \in from..(Len(f) + 1) : (k > Len(f) \/ ~IsDigit(f[k])) /\ \A j \in from..(k - 1) : IsDigit(f[j])
        number == FoldLeft(LAMBDA n, c : n * 10 + Value(c), 0, SubSeq(f, from, to - 1))
        wrong == \/ to > Len(f)
                 \/ f[to] \notin {"%", "c", "s", "x", "u", "d"}
                 \/ f[to] = "%" /\ to # 2
                 \/ zero /\ (number = 0 \/ f[to] \in {"c", "s"} \/ f[3] = "0")
        rest == Meaning(SubSeq(f, to + 1, Len(f)), IF f[to] = "%" THEN args ELSE Tail(args))
        text == IF f[to] = "%" THEN <<"%">> ELSE Spelled(zero, number, f[to], Head(args))
        after == Meaning(Tail(f), args)
    IN  CASE f = <<>> -> <<>>
          [] f # <<>> /\ f[1] # "%" -> IF after = Malformed THEN after ELSE <<f[1]>> \o after
          [] f # <<>> /\ f[1] = "%" ->
                IF wrong \/ rest = Malformed THEN Malformed ELSE text \o rest

-----------------------------------------------------------------------------
(* Properties *)

Memory == [k \in 0..(BufferMax + 1) |-> Garbage]

\* vsnprintf writes what its format means, cut to the buffer and ended, returns
\* the full length, never touches what lies behind the buffer, also for sizes
\* 0 and 1, and a log line, cut too, keeps its line end inside logger_write's
\* array.  Arguments are above INT_MIN, which format_signed_dec cannot negate.
FormatsRight ==
    LET cut(text, n) == SubSeq(text, 1, Min({Len(text), n}))
        inside(mem, n) == \A k \in DOMAIN mem : k >= n => mem[k] = Garbage
        right(t, size, text) ==
            /\ inside(t.mem, size)
            /\ IF text = Malformed THEN t.r = EOF
               ELSE t.r = Len(text) /\ (size > 0 => string(t.mem) = cut(text, size - 1))
        logged(l, text) ==
            /\ inside(l.mem, LOG_SIZE)
            /\ l.sent = IF text = Malformed THEN <<>> ELSE Append(cut(text, LOG_SIZE - 2), "\n")
        means(f, args, text) ==
            /\ \A size \in 0..BufferMax : right(vsnprintf(Memory, size, f, args), size, text)
            /\ logged(logger_write(Memory, f, args), text)
    IN  \A f \in Formats, a \in Arguments :
            LET args == [k \in 1..Len(f) |-> a] IN means(f, args, Meaning(f, args))
=============================================================================
