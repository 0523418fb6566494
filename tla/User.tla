--------------------------------- MODULE User ---------------------------------
(***************************************************************************)
(* Where programs live (kernel/user.h).                                    *)
(***************************************************************************)
EXTENDS Integers

CONSTANTS
    USER_ADDRESS_START, USER_ADDRESS_END,   \* all a program can address
    BRK_ADDRESS_END                         \* where text, data and heap end

IS_USER_ADDRESSS(p) == p >= USER_ADDRESS_START /\ p < USER_ADDRESS_END

IS_EXECUTABLE_ADDRESS(p) == p >= USER_ADDRESS_START /\ p < BRK_ADDRESS_END
=============================================================================
