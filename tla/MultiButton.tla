---------------------------- MODULE MultiButton -----------------------------
(***************************************************************************)
(* MultiButton: the timer interrupt walks a linked list of buttons and     *)
(* runs the state machine of each (button_ticks, button_handler); the main *)
(* program adds and removes buttons meanwhile (button_start, button_stop). *)
(* A callback, which runs in the interrupt, may stop one button; it starts *)
(* none.  The interrupt comes between any two steps of the main program    *)
(* and runs to its end.                                                    *)
(***************************************************************************)
EXTENDS Integers, Sequences

CONSTANTS Buttons,
          Wired,      \* the buttons whose pins move
          NULL,
          Configs,    \* how a button is initialised: [ext, active, again, long]
          Debounce,   \* DEBOUNCE_TICKS
          Short,      \* SHORT_TICKS
          Wrap,       \* ticks is a number below Wrap
          RepeatWrap, \* repeat is a number below RepeatWrap
          CntWrap,    \* debounce_cnt is a number below CntWrap
          MaxClicks   \* presses in a row

ASSUME ButtonAssumption ==
    /\ Wired \subseteq Buttons /\ NULL \notin Buttons /\ "head" \notin Buttons
    /\ Debounce \in Nat \ {0} /\ Short \in Nat /\ Wrap \in Nat /\ Wrap > Short + 1
    /\ RepeatWrap \in Nat /\ RepeatWrap > 1 /\ CntWrap \in Nat \ {0}
    /\ MaxClicks \in Nat /\ MaxClicks > 1
    /\ Configs \subseteq [ext : BOOLEAN, active : 0 .. 1, again : BOOLEAN, long : 0 .. Wrap - 2]

VARIABLES head, next,           \* head_handle and the next of every button
          conf, ticks, repeat, event, state, debounce_cnt, button_level,
          pin,                  \* the levels of the pins
          isr,                  \* the button button_ticks is at
          main,                 \* where the main program is in button_start or button_stop
          started,              \* buttons that were started and not stopped since
          done,                 \* buttons this call of button_ticks has handled
          trace,                \* callbacks since the button was last at rest
          seen,                 \* the last level read, and how often in a row
          crossed               \* a callback has stopped a button inside button_start or button_stop

list == <<head, next>>
handle == <<ticks, repeat, event, state, debounce_cnt, button_level, trace, seen>>
vars == <<list, conf, handle, pin, isr, main, started, done, crossed>>

\* The buttons the links nx lead to from x on: the smallest set that holds x and, with a
\* button, the one behind it.
Reach(nx, x) ==
    {b \in Buttons : \A S \in SUBSET Buttons :
        x \in S \cup {NULL} /\ (\A c \in S : nx[c] \in S \cup {NULL}) => b \in S}
Listed == Reach(next, head)

Rest == [op |-> "none", h |-> NULL, at |-> NULL]
Released(b) == 1 - conf[b].active
\* button_init reads the pin; button_init_ext does not, and the level is 0.
FirstLevel(c, level) == IF c.ext THEN 0 ELSE level

Init ==
    /\ head = NULL /\ next = [b \in Buttons |-> NULL]
    /\ conf \in [Buttons -> Configs] /\ pin = [b \in Buttons |-> Released(b)]
    /\ ticks = [b \in Buttons |-> 0] /\ repeat = [b \in Buttons |-> 0]
    /\ event = [b \in Buttons |-> "NONE_PRESS"] /\ state = [b \in Buttons |-> 0]
    /\ debounce_cnt = [b \in Buttons |-> 0]
    /\ button_level = [b \in Buttons |-> FirstLevel(conf[b], pin[b])]
    /\ isr = NULL /\ main = Rest /\ started = {} /\ done = {} /\ crossed = FALSE
    /\ trace = [b \in Buttons |-> << >>]
    /\ seen = [b \in Buttons |-> [level |-> pin[b], times |-> 0]]

-----------------------------------------------------------------------------
(* The main program                                                        *)

\* button_init or button_init_ext of a button that is not in the list.
button_init(b) ==
    /\ isr = NULL /\ main = Rest /\ b \notin Listed
    /\ next' = [next EXCEPT ![b] = NULL]
    /\ ticks' = [ticks EXCEPT ![b] = 0] /\ repeat' = [repeat EXCEPT ![b] = 0]
    /\ event' = [event EXCEPT ![b] = "NONE_PRESS"] /\ state' = [state EXCEPT ![b] = 0]
    /\ debounce_cnt' = [debounce_cnt EXCEPT ![b] = 0]
    /\ button_level' = [button_level EXCEPT ![b] = FirstLevel(conf[b], pin[b])]
    /\ trace' = [trace EXCEPT ![b] = << >>]
    /\ seen' = [seen EXCEPT ![b] = [level |-> pin[b], times |-> 0]]
    /\ UNCHANGED <<head, conf, pin, isr, main, started, done, crossed>>

button_start(b) ==
    /\ isr = NULL /\ main = Rest
    /\ main' = [op |-> "search", h |-> b, at |-> head]
    /\ UNCHANGED <<list, conf, handle, pin, isr, started, done, crossed>>

\* Mutant: a button that is in the list already is added again.
MutantStartSearch ==
    /\ isr = NULL /\ main.op = "search"
    /\ main' = IF main.at = NULL THEN [main EXCEPT !.op = "link"] ELSE [main EXCEPT !.at = next[main.at]]
    /\ UNCHANGED <<list, conf, handle, pin, isr, started, done, crossed>>

StartSearch ==
    /\ isr = NULL /\ main.op = "search"
    /\ main' = IF main.at = NULL THEN [main EXCEPT !.op = "link"]
               ELSE IF main.at = main.h THEN Rest
               ELSE [main EXCEPT !.at = next[main.at]]
    /\ UNCHANGED <<list, conf, handle, pin, isr, started, done, crossed>>

StartLink ==
    /\ isr = NULL /\ main.op = "link"
    /\ next' = [next EXCEPT ![main.h] = head] /\ main' = [main EXCEPT !.op = "head"]
    /\ UNCHANGED <<head, conf, handle, pin, isr, started, done, crossed>>

StartHead ==
    /\ isr = NULL /\ main.op = "head"
    /\ head' = main.h /\ main' = Rest /\ started' = started \cup {main.h}
    /\ UNCHANGED <<next, conf, handle, pin, isr, done, crossed>>

button_stop(b) ==
    /\ isr = NULL /\ main = Rest
    /\ main' = [op |-> "stop", h |-> b, at |-> "head"] /\ started' = started \ {b}
    /\ UNCHANGED <<list, conf, handle, pin, isr, done, crossed>>

\* One turn of the loop: curr is the address of head_handle or of the next of a button.
StopStep ==
    /\ isr = NULL /\ main.op = "stop"
    /\ LET entry == IF main.at = "head" THEN head ELSE next[main.at] IN
       \/ entry = NULL /\ main' = Rest /\ UNCHANGED list
       \/ /\ entry = main.h /\ UNCHANGED main
          /\ IF main.at = "head" THEN head' = next[entry] /\ UNCHANGED next
             ELSE next' = [next EXCEPT ![main.at] = next[entry]] /\ UNCHANGED head
       \/ entry \notin {NULL, main.h} /\ main' = [main EXCEPT !.at = entry] /\ UNCHANGED list
    /\ UNCHANGED <<conf, handle, pin, isr, started, done, crossed>>

-----------------------------------------------------------------------------
(* The timer interrupt                                                     *)

button_ticks ==
    /\ isr = NULL /\ isr' = head
    /\ UNCHANGED <<list, conf, handle, pin, main, started, done, crossed>>

\* The level after debouncing and the time, with which the state machine goes on.
Changes(b) == pin[b] # button_level[b]
\* Mutant: a level counts one reading early.
MutantSettled(b) == (debounce_cnt[b] + 1) % CntWrap >= Debounce - 1
Settled(b) == (debounce_cnt[b] + 1) % CntWrap >= Debounce
Level(b) == IF Changes(b) /\ Settled(b) THEN pin[b] ELSE button_level[b]
Pressed(b) == Level(b) = conf[b].active
Time(b) == IF state[b] > 0 THEN (ticks[b] + 1) % Wrap ELSE ticks[b]

Sample(b) ==
    /\ button_level' = [button_level EXCEPT ![b] = Level(b)]
    /\ debounce_cnt' = [debounce_cnt EXCEPT ![b] = IF Changes(b) /\ ~Settled(b) THEN (@ + 1) % CntWrap ELSE 0]
    /\ seen' = [seen EXCEPT ![b] =
                   [level |-> pin[b], times |-> IF pin[b] = @.level /\ @.times < Debounce THEN @.times + 1
                                                ELSE IF pin[b] = @.level THEN Debounce ELSE 1]]

\* Mutant: a button that is taken out of the list does not point into it any more.
MutantStop(s) ==
    /\ s \in started /\ started' = started \ {s}
    /\ head' = IF head = s THEN next[s] ELSE head
    /\ next' = [c \in Buttons |-> IF c = s THEN NULL ELSE IF next[c] = s THEN next[s] ELSE next[c]]

\* A callback may stop a button, in one go because it runs in the interrupt.
Stop(s) ==
    /\ s \in started /\ started' = started \ {s}
    /\ IF head = s THEN head' = next[s] /\ UNCHANGED next
       ELSE /\ next' = [c \in Buttons |-> IF c \in Listed /\ next[c] = s THEN next[s] ELSE next[c]]
            /\ UNCHANGED head
Callbacks(evs) ==
    \/ UNCHANGED <<list, started, crossed>>
    \/ evs # << >> /\ (\E s \in Buttons : Stop(s)) /\ crossed' = (crossed \/ main # Rest)

\* A callback that is repeated while the button is held is noted once.
Noted(t, evs) == IF evs # << >> /\ t # << >> /\ evs[1] = t[Len(t)] THEN t ELSE t \o evs

\* The rest of a call of button_handler, and the step of the loop of button_ticks after it.
Go(b, to, evs) ==
    /\ isr = b /\ Sample(b) /\ Callbacks(evs)
    /\ state' = [state EXCEPT ![b] = to]
    /\ event' = [event EXCEPT ![b] = IF evs = << >> THEN @ ELSE evs[1]]
    /\ trace' = [trace EXCEPT ![b] = Noted(IF state[b] = 0 THEN << >> ELSE @, evs)]
    /\ isr' = next'[b] /\ done' = IF next'[b] = NULL THEN {} ELSE done \cup {b}
    /\ UNCHANGED <<conf, pin, main>>
Ticks(b, t) == ticks' = [ticks EXCEPT ![b] = t]

\* State 0: at rest.
Idle(b) ==
    /\ isr = b /\ state[b] = 0 /\ ~Pressed(b) /\ Sample(b)
    /\ event' = [event EXCEPT ![b] = "NONE_PRESS"]
    /\ isr' = next[b] /\ done' = IF next[b] = NULL THEN {} ELSE done \cup {b}
    /\ UNCHANGED <<list, conf, ticks, repeat, state, trace, pin, main, started, crossed>>

\* Mutant: the number of presses is not set back.
MutantPressDown(b) ==
    /\ isr = b /\ state[b] = 0 /\ Pressed(b) /\ Go(b, 1, <<"PRESS_DOWN">>)
    /\ Ticks(b, 0) /\ repeat' = [repeat EXCEPT ![b] = IF @ = 0 THEN 1 ELSE @]

PressDown(b) ==
    /\ isr = b /\ state[b] = 0 /\ Pressed(b) /\ Go(b, 1, <<"PRESS_DOWN">>)
    /\ Ticks(b, 0) /\ repeat' = [repeat EXCEPT ![b] = 1]

\* State 1: held for the first time.
PressUp(b) ==
    /\ isr = b /\ state[b] = 1 /\ ~Pressed(b)
    /\ Go(b, IF conf[b].again THEN 0 ELSE 2, <<"PRESS_UP">>)
    /\ Ticks(b, 0) /\ UNCHANGED repeat

LongPress(b) ==
    /\ isr = b /\ state[b] = 1 /\ Pressed(b)
    /\ IF Time(b) > conf[b].long THEN Go(b, IF conf[b].again THEN 6 ELSE 5, <<"LONG_PRESS_START">>)
       ELSE Go(b, 1, << >>)
    /\ Ticks(b, Time(b)) /\ UNCHANGED repeat

\* State 2: released, and may be pressed again.
PressAgain(b) ==
    /\ isr = b /\ state[b] = 2 /\ Pressed(b) /\ Go(b, 3, <<"PRESS_DOWN", "PRESS_REPEAT">>)
    /\ Ticks(b, 0) /\ repeat' = [repeat EXCEPT ![b] = (@ + 1) % RepeatWrap]

\* Mutant: the button does not come to rest after three presses.
MutantClick(b) ==
    /\ isr = b /\ state[b] = 2 /\ ~Pressed(b)
    /\ IF Time(b) <= Short \/ repeat[b] > 2 THEN Go(b, 2, << >>)
       ELSE Go(b, 0, CASE repeat[b] = 1 -> <<"SINGLE_CLICK">> [] repeat[b] = 2 -> <<"DOUBLE_CLICK">>
                       [] OTHER -> << >>)
    /\ Ticks(b, Time(b)) /\ UNCHANGED repeat

Click(b) ==
    /\ isr = b /\ state[b] = 2 /\ ~Pressed(b)
    /\ IF Time(b) <= Short THEN Go(b, 2, << >>)
       ELSE Go(b, 0, CASE repeat[b] = 1 -> <<"SINGLE_CLICK">> [] repeat[b] = 2 -> <<"DOUBLE_CLICK">>
                       [] OTHER -> << >>)
    /\ Ticks(b, Time(b)) /\ UNCHANGED repeat

\* State 3: held again.
Repeated(b) ==
    /\ isr = b /\ state[b] = 3
    /\ IF Pressed(b) THEN Go(b, 3, << >>) /\ Ticks(b, Time(b))
       ELSE IF Time(b) < Short THEN Go(b, 2, <<"PRESS_UP">>) /\ Ticks(b, 0)
       ELSE Go(b, 0, <<"PRESS_UP">>) /\ Ticks(b, Time(b))
    /\ UNCHANGED repeat

\* State 5: held for long.
Hold(b) ==
    /\ isr = b /\ state[b] = 5
    /\ IF Pressed(b) THEN Go(b, 5, <<"LONG_PRESS_HOLD">>) ELSE Go(b, 0, <<"PRESS_UP">>)
    /\ Ticks(b, Time(b)) /\ UNCHANGED repeat

\* State 6: held for long, to be reported again.
Again(b) ==
    /\ isr = b /\ state[b] = 6
    /\ IF Pressed(b) THEN Go(b, 1, << >>) /\ Ticks(b, 0)
       ELSE Go(b, 0, <<"PRESS_UP">>) /\ Ticks(b, Time(b))
    /\ UNCHANGED repeat

button_handler(b) ==
    \/ Idle(b) \/ PressDown(b) \/ PressUp(b) \/ LongPress(b) \/ PressAgain(b) \/ Click(b)
    \/ Repeated(b) \/ Hold(b) \/ Again(b)

-----------------------------------------------------------------------------
\* The user presses and releases, bounces included, at most MaxClicks times in a row.
Finger(b) ==
    /\ isr = NULL /\ b \in Wired
    /\ pin[b] = Released(b) => ~(state[b] \in {2, 3} /\ repeat[b] = MaxClicks)
    /\ pin' = [pin EXCEPT ![b] = 1 - @]
    /\ UNCHANGED <<list, conf, handle, isr, main, started, done, crossed>>

Next ==
    \/ \E b \in Buttons : button_start(b) \/ button_stop(b) \/ button_init(b)
    \/ StartSearch \/ StartLink \/ StartHead \/ StopStep
    \/ button_ticks \/ \E b \in Buttons : button_handler(b)
    \/ \E b \in Buttons : Finger(b)

\* The timer goes on, and an interrupt ends.
Fairness == WF_vars(button_ticks) /\ WF_vars(\E b \in Buttons : button_handler(b))

Spec == Init /\ [][Next]_vars /\ Fairness

-----------------------------------------------------------------------------
(* Properties                                                              *)

Events == {"PRESS_DOWN", "PRESS_UP", "PRESS_REPEAT", "SINGLE_CLICK", "DOUBLE_CLICK",
           "LONG_PRESS_START", "LONG_PRESS_HOLD", "NONE_PRESS"}

TypeOK ==
    /\ head \in Buttons \cup {NULL} /\ next \in [Buttons -> Buttons \cup {NULL}]
    /\ conf \in [Buttons -> Configs] /\ ticks \in [Buttons -> 0 .. Wrap - 1]
    /\ repeat \in [Buttons -> 0 .. RepeatWrap - 1] /\ event \in [Buttons -> Events]
    /\ state \in [Buttons -> {0, 1, 2, 3, 5, 6}] /\ debounce_cnt \in [Buttons -> 0 .. CntWrap - 1]
    /\ button_level \in [Buttons -> 0 .. 1] /\ pin \in [Buttons -> 0 .. 1]
    /\ isr \in Buttons \cup {NULL} /\ started \subseteq Buttons /\ done \subseteq Buttons
    /\ crossed \in BOOLEAN

\* Whatever the main program is in the middle of and whatever a callback stopped meanwhile, the
\* list does not run in a circle and holds every button that was started.  Besides them it holds
\* only the one the main program is adding or removing (once button_stop has returned the button
\* is out), unless a callback has stopped a button inside button_start or button_stop.
ListRight ==
    /\ \A b \in Listed : b \notin Reach(next, next[b])
    /\ started \subseteq Listed
    /\ ~crossed => Listed \subseteq started \cup {main.h}

\* A call of button_ticks handles no button twice, and at its end has handled each one that
\* is started, wherever in button_start or button_stop it came and whichever one button each
\* callback took out of the list it walks, the one at hand or another.
EveryTick ==
    [][/\ isr # NULL => isr \notin done
       /\ (isr # NULL /\ isr' = NULL) => started' \subseteq done \cup {isr}]_vars

\* One press and release, and n - 1 repeated ones.
Clicks(n) ==
    [i \in 1 .. 3 * n - 1 |-> IF i % 3 = 2 THEN "PRESS_UP"
                             ELSE IF i % 3 = 0 \/ i = 1 THEN "PRESS_DOWN" ELSE "PRESS_REPEAT"]
\* What a user can do from rest to rest: click, hold, or hold with a repeated report.
Gestures(c) ==
    IF c.again THEN {Clicks(1), <<"PRESS_DOWN", "LONG_PRESS_START", "PRESS_UP">>}
    ELSE {Clicks(1) \o <<"SINGLE_CLICK">>, Clicks(2) \o <<"DOUBLE_CLICK">>}
         \cup {Clicks(n) : n \in 2 .. MaxClicks}
         \cup {<<"PRESS_DOWN", "LONG_PRESS_START", "PRESS_UP">>,
               <<"PRESS_DOWN", "LONG_PRESS_START", "LONG_PRESS_HOLD", "PRESS_UP">>}

\* The callbacks of a button come in the order of a gesture, whole when it is back at rest:
\* down and up alternate, a long press is never also a click, and a click is single or
\* double as the number of presses was, also when the button was stopped and started again
\* in the middle.  Nobody presses more often in a row than `repeat' can count.
EventOrder ==
    \A b \in Buttons :
        /\ trace[b] # << >> => \E g \in Gestures(conf[b]) : Len(trace[b]) <= Len(g) /\ SubSeq(g, 1, Len(trace[b])) = trace[b]
        /\ state[b] = 0 => trace[b] \in Gestures(conf[b]) \cup {<< >>}

\* A level counts when button_handler has read it Debounce times in a row and not before: it is
\* taken at the last of these readings, and the level before is kept through any shorter pulse.
\* Readings before a stop and after the next start are in a row, as debounce_cnt is kept.
Debounced ==
    [][\A b \in Buttons :
         isr = b => /\ button_level'[b] # button_level[b] => seen'[b].times >= Debounce
                    /\ seen'[b].times >= Debounce => button_level'[b] = seen'[b].level]_vars

\* A button that is released for good comes to rest, unless it is stopped.
Settles ==
    \A b \in Wired : <>[](b \in started /\ pin[b] = Released(b)) => <>[](state[b] = 0)
=============================================================================
