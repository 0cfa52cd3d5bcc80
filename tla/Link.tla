-------------------------------- MODULE Link --------------------------------
(***************************************************************************)
(* What the meeting client promises the application about its connection,  *)
(* whatever sockets, timers and handles it takes: every call of the        *)
(* application makes one line; a line that is lost is redialled, unless    *)
(* the application hung up, or the redials since any line was last up are  *)
(* spent; and no line ever becomes two.                                    *)
(***************************************************************************)
EXTENDS Naturals

CONSTANTS
  MaxTries,   \* redials in a row before lost lines are given up
  Redials     \* TRUE when a line that is lost is redialled

VARIABLES
  granted,   \* calls of the application since there was no line
  out,       \* lines that are dialling, up or closing
  waiting,   \* lines that wait to be redialled
  tries,     \* redials since a line was last up
  hung       \* the application hung up, and nothing was dialled since

linkVars == <<granted, out, waiting, tries, hung>>

LinkInit == granted = 0 /\ out = 0 /\ waiting = 0 /\ tries = 0 /\ hung = FALSE

Grant == granted' = IF out + waiting = 0 THEN 1 ELSE granted + 1

\* A line that is lost while the application wants it waits for its redial.
Retry(wanted) ==
  IF wanted /\ Redials /\ tries < MaxTries
    THEN waiting' = waiting + 1 /\ tries' = tries + 1
    ELSE UNCHANGED <<waiting, tries>>

Dial ==
  /\ Grant
  /\ out' = out + 1
  /\ hung' = FALSE
  /\ UNCHANGED <<waiting, tries>>

Answer ==
  /\ out > 0
  /\ tries' = 0
  /\ UNCHANGED <<granted, out, waiting, hung>>

Lose ==
  /\ out > 0
  /\ out' = out - 1
  /\ Retry(~hung)
  /\ UNCHANGED <<granted, hung>>

\* The application dials in the very moment it is told of the loss.
LoseAndDial ==
  /\ out > 0
  /\ granted' = granted + 1
  /\ out' = out
  /\ hung' = FALSE
  /\ Retry(TRUE)

Redial ==
  /\ waiting > 0
  /\ waiting' = waiting - 1
  /\ out' = out + 1
  /\ hung' = FALSE
  /\ UNCHANGED <<granted, tries>>

\* At most one of the waiting lines is taken back.
TakeBack == waiting' \in {waiting, waiting - 1} \cap Nat

HangUp ==
  /\ hung' = TRUE
  /\ TakeBack
  /\ UNCHANGED <<granted, out, tries>>

LoseAndHangUp ==
  /\ out > 0
  /\ out' = out - 1
  /\ hung' = TRUE
  /\ TakeBack
  /\ UNCHANGED <<granted, tries>>

LinkNext ==
  Dial \/ Answer \/ Lose \/ LoseAndDial \/ Redial \/ HangUp \/ LoseAndHangUp

LinkSpec == LinkInit /\ [][LinkNext]_linkVars
=============================================================================
