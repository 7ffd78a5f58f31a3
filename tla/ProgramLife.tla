---------------------------- MODULE ProgramLife -----------------------------
(***************************************************************************)
(* What the user at a terminal is promised of the life of lynx in the      *)
(* foreground: it takes the terminal and serves; commands get the terminal *)
(* for as long as they run; while it serves no signal kills it; it returns *)
(* to the shell only when it was asked to, with the terminal given back.   *)
(***************************************************************************)
VARIABLES
    phase,   \* "starting", "serving", "ending", "ended" or "killed"
    mode,    \* of the terminal: "cooked", as it was found, or "raw"
    asked    \* an exit, the end-of-file key or a signal asked it to end

vars == <<phase, mode, asked>>

Init == phase = "starting" /\ mode = "cooked" /\ asked = FALSE

Take == /\ phase = "starting" /\ mode = "cooked"
        /\ mode' = "raw"
        /\ UNCHANGED <<phase, asked>>

\* The setup is over, or it failed.
SetUp == /\ phase = "starting" /\ mode = "raw"
         /\ phase' \in {"serving", "ending"}
         /\ UNCHANGED <<mode, asked>>

\* A command begins, and ends; it may be an exit.
Lend == /\ phase = "serving" /\ mode = "raw" /\ ~asked
        /\ mode' = "cooked"
        /\ UNCHANGED <<phase, asked>>

TakeBack == /\ phase = "serving" /\ mode = "cooked"
            /\ mode' = "raw"
            /\ asked' \in BOOLEAN
            /\ UNCHANGED phase

Ask == /\ phase = "serving" /\ mode = "raw" /\ ~asked
       /\ asked' = TRUE
       /\ UNCHANGED <<phase, mode>>

\* No command is running when it stops to serve.
Leave == /\ phase = "serving" /\ mode = "raw"
         /\ phase' = "ending"
         /\ UNCHANGED <<mode, asked>>

GiveBack == /\ phase = "ending" /\ mode = "raw"
            /\ mode' = "cooked"
            /\ UNCHANGED <<phase, asked>>

Finish == /\ phase = "ending" /\ mode = "cooked" /\ asked
          /\ phase' = "ended"
          /\ UNCHANGED <<mode, asked>>

Kill == /\ phase \in {"starting", "ending"}
        /\ phase' = "killed"
        /\ UNCHANGED <<mode, asked>>

Next == Take \/ SetUp \/ Lend \/ TakeBack \/ Ask \/ Leave \/ GiveBack \/ Finish \/ Kill

Spec == Init /\ [][Next]_vars

=============================================================================
