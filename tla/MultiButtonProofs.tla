------------------------- MODULE MultiButtonProofs --------------------------
(***************************************************************************)
(* The buttons, for any number of them and any configuration: the list     *)
(* stays whole and every tick handles each of its buttons once, whatever   *)
(* the interrupt interrupts and a callback stops; a level counts when it   *)
(* was read Debounce times, as far as debounce_cnt can count; the          *)
(* callbacks come in the order of a gesture, as far as repeat can count.   *)
(***************************************************************************)
EXTENDS MultiButton, SequenceTheorems, TLAPS

Links == [Buttons -> Buttons \cup {NULL}]

ListType ==
    /\ head \in Buttons \cup {NULL} /\ next \in Links
    /\ isr \in Buttons \cup {NULL} /\ started \subseteq Buttons /\ done \subseteq Buttons
    /\ crossed \in BOOLEAN

\* No button, listed or not, leads back to itself.
Acyclic == \A b \in Buttons : b \notin Reach(next, next[b])

MainType == main \in [op : {"none", "search", "link", "head", "stop"}, h : Buttons \cup {NULL},
                      at : Buttons \cup {NULL, "head"}]

\* Where the main program is, and what is still to be found from there on, whichever buttons
\* callbacks have stopped meanwhile: `at' may have left the list, and next[main.h] too.
MainInv ==
    /\ started \subseteq Listed
    /\ main.op # "none" => main.h \in Buttons
    /\ main.op = "search" =>
          main.at \in Buttons \cup {NULL} /\ (main.h \in Listed => main.h \in Reach(next, main.at))
    /\ main.op \in {"link", "head"} => main.h \notin Listed
    /\ main.op = "head" => Listed \subseteq Reach(next, next[main.h])
    /\ main.op = "stop" => main.h \notin started /\ main.at \in Buttons \cup {"head"}

\* What is left of the walk of button_ticks is what it has not handled.
WalkInv ==
    /\ isr = NULL => done = {}
    /\ isr # NULL => isr \in Listed /\ Listed \subseteq done \cup Reach(next, isr)
    /\ \A b \in done : b \notin Reach(next, isr)

ListInv == ListType /\ MainType /\ Acyclic /\ MainInv /\ WalkInv

\* Which buttons the list holds as long as no callback has stopped one inside button_start or
\* button_stop.
Alone ==
    \/ main = Rest /\ Listed = started
    \/ main.op \in {"search", "link"} /\ Listed = started
    \/ main.op = "head" /\ Listed = started /\ next[main.h] = head
    \/ /\ main.op = "stop" /\ Listed \subseteq started \cup {main.h}
       /\ \/ main.at = "head"
          \/ /\ main.at \in Listed \ {main.h}
             /\ main.h \in Listed => main.h \in Reach(next, next[main.at])
AloneInv == ~crossed => Alone

-----------------------------------------------------------------------------
HandleType ==
    /\ conf \in [Buttons -> Configs]
    /\ ticks \in [Buttons -> 0 .. Wrap - 1] /\ event \in [Buttons -> Events]
    /\ repeat \in [Buttons -> 0 .. RepeatWrap - 1]
    /\ state \in [Buttons -> {0, 1, 2, 3, 5, 6}] /\ debounce_cnt \in [Buttons -> 0 .. CntWrap - 1]
    /\ button_level \in [Buttons -> 0 .. 1] /\ pin \in [Buttons -> 0 .. 1]
    /\ seen \in [Buttons -> [level : 0 .. 1, times : 0 .. Debounce]]
    /\ trace \in [Buttons -> Seq(Events)]

\* The counter is the number of readings in a row that differ from the level.
BounceInv ==
    \A b \in Buttons :
        IF seen[b].level = button_level[b] THEN debounce_cnt[b] = 0
        ELSE debounce_cnt[b] = seen[b].times /\ seen[b].times < Debounce

\* `repeat' can count the presses, and has counted no more of them.
Presses == MaxClicks < RepeatWrap /\ \A b \in Buttons : repeat[b] <= MaxClicks

\* A button is held or not as its state says, and nobody presses once too often.
LevelInv ==
    \A b \in Buttons :
        /\ state[b] \in {1, 3, 5, 6} => button_level[b] = conf[b].active
        /\ state[b] = 2 => button_level[b] = Released(b)
        /\ state[b] = 2 /\ repeat[b] = MaxClicks => pin[b] = Released(b)

Down == <<"PRESS_DOWN">>
DownLong == <<"PRESS_DOWN", "LONG_PRESS_START">>
DownLongHold == <<"PRESS_DOWN", "LONG_PRESS_START", "LONG_PRESS_HOLD">>
PressedAgain(n) == Clicks(n) \o <<"PRESS_DOWN", "PRESS_REPEAT">>

\* The callbacks of a gesture so far, by the state it is in.
TraceOf(c, st, rep) ==
    CASE st = 0 -> Gestures(c) \cup {<< >>}
      [] st = 1 -> IF c.again THEN {Down, DownLong} ELSE {Down}
      [] st = 2 -> {Clicks(rep)}
      [] st = 3 -> {PressedAgain(rep - 1)}
      [] st = 5 -> {DownLong, DownLongHold}
      [] OTHER -> {DownLong}

TraceInv ==
    \A b \in Buttons :
        /\ trace[b] \in TraceOf(conf[b], state[b], repeat[b])
        /\ state[b] \in {2, 3, 5} => ~conf[b].again
        /\ state[b] = 6 => conf[b].again
        /\ state[b] \in {1, 6} => repeat[b] = 1
        /\ state[b] = 2 => repeat[b] >= 1
        /\ state[b] = 3 => repeat[b] >= 2

Kept == Presses /\ LevelInv /\ TraceInv
HandleInv == HandleType /\ Kept

-----------------------------------------------------------------------------
(* Reach: what the links lead to.                                          *)

\* S holds the button behind each of its buttons.
Closed(nx, S) == \A c \in S : nx[c] \in S \cup {NULL}

\* Whatever is closed and holds x holds all that can be reached from x.
LEMMA ReachIn ==
    ASSUME NEW nx, NEW S \in SUBSET Buttons, NEW x \in S \cup {NULL}, Closed(nx, S)
    PROVE  Reach(nx, x) \subseteq S
  BY DEF Reach, Closed

\* A button that is in every such set can be reached.
LEMMA InReach ==
    ASSUME NEW nx, NEW x, NEW b \in Buttons,
           \A S \in SUBSET Buttons : x \in S \cup {NULL} /\ Closed(nx, S) => b \in S
    PROVE  b \in Reach(nx, x)
  BY DEF Reach, Closed

\* What can be reached from x is x and what can be reached from the next one.
LEMMA ReachNull == ASSUME NEW nx PROVE Reach(nx, NULL) = {}
  <1>1. {} \in SUBSET Buttons /\ NULL \in {} \cup {NULL} /\ Closed(nx, {})
    BY DEF Closed
  <1>2. Reach(nx, NULL) \subseteq {}
    BY <1>1, ReachIn
  <1> QED BY <1>2

LEMMA ReachType == ASSUME NEW nx, NEW x PROVE Reach(nx, x) \in SUBSET Buttons
  BY DEF Reach

LEMMA ReachSelf ==
    ASSUME NEW nx \in Links, NEW x \in Buttons
    PROVE  x \in Reach(nx, x)
  BY ButtonAssumption DEF Reach

LEMMA ReachClosed ==
    ASSUME NEW nx \in Links, NEW x \in Buttons \cup {NULL}
    PROVE  Closed(nx, Reach(nx, x))
  <1> SUFFICES ASSUME NEW c \in Reach(nx, x), nx[c] # NULL PROVE nx[c] \in Reach(nx, x)
    BY DEF Closed
  <1>1. c \in Buttons /\ nx[c] \in Buttons
    BY ReachType DEF Links
  <1>2. ASSUME NEW S \in SUBSET Buttons, x \in S \cup {NULL}, Closed(nx, S) PROVE nx[c] \in S
    <2>1. c \in S
      BY <1>2, ReachIn
    <2> QED BY <1>2, <2>1 DEF Closed
  <1> QED BY <1>1, <1>2, InReach

LEMMA ReachStep ==
    ASSUME NEW nx \in Links, NEW x \in Buttons
    PROVE  Reach(nx, x) = {x} \cup Reach(nx, nx[x])
  <1> DEFINE T == {x} \cup Reach(nx, nx[x])
  <1>1. nx[x] \in Buttons \cup {NULL}
    BY DEF Links
  <1>2. T \in SUBSET Buttons
    BY ReachType
  <1>3. Closed(nx, T)
    <2>1. Closed(nx, Reach(nx, nx[x]))
      BY <1>1, ReachClosed
    <2>2. nx[x] \in Reach(nx, nx[x]) \cup {NULL}
      BY <1>1, ReachSelf
    <2> QED BY <2>1, <2>2 DEF Closed
  <1>4. Reach(nx, x) \subseteq T
    <2>1. x \in T \cup {NULL}
      OBVIOUS
    <2> HIDE DEF T
    <2> QED BY <1>2, <1>3, <2>1, ReachIn
  <1>5. x \in Reach(nx, x) /\ Closed(nx, Reach(nx, x)) /\ Reach(nx, x) \in SUBSET Buttons
    BY ReachSelf, ReachClosed, ReachType
  <1>6. nx[x] \in Reach(nx, x) \cup {NULL}
    BY <1>5 DEF Closed
  <1>7. Reach(nx, nx[x]) \subseteq Reach(nx, x)
    BY <1>5, <1>6, ReachIn
  <1> QED BY <1>4, <1>5, <1>7

\* From a button that can be reached from x nothing else can be reached.
LEMMA ReachTrans ==
    ASSUME NEW nx \in Links, NEW x \in Buttons \cup {NULL}, NEW y \in Reach(nx, x) \cup {NULL}
    PROVE  Reach(nx, y) \subseteq Reach(nx, x)
  BY ReachClosed, ReachType, ReachIn

\* Links that agree on a closed set lead to the same buttons from there.
LEMMA ReachLocal ==
    ASSUME NEW nx \in Links, NEW ny \in Links, NEW S \in SUBSET Buttons, Closed(nx, S),
           \A c \in S : ny[c] = nx[c], NEW x \in S \cup {NULL}
    PROVE  Reach(ny, x) = Reach(nx, x)
  <1>1. Closed(ny, S)
    BY DEF Closed
  <1>2. Reach(nx, x) \subseteq S /\ Reach(ny, x) \subseteq S
    BY <1>1, ReachIn
  <1>3. x \in Buttons \cup {NULL}
    OBVIOUS
  <1>4. Closed(nx, Reach(nx, x)) /\ Closed(ny, Reach(ny, x))
    BY <1>3, ReachClosed
  <1>5. Closed(ny, Reach(nx, x)) /\ Closed(nx, Reach(ny, x))
    BY <1>2, <1>4 DEF Closed
  <1>6. x \in Reach(nx, x) \cup {NULL} /\ x \in Reach(ny, x) \cup {NULL}
    BY <1>3, ReachSelf
  <1>7. Reach(nx, x) \in SUBSET Buttons /\ Reach(ny, x) \in SUBSET Buttons
    BY ReachType
  <1>8. Reach(ny, x) \subseteq Reach(nx, x)
    BY <1>5, <1>6, <1>7, ReachIn
  <1>9. Reach(nx, x) \subseteq Reach(ny, x)
    BY <1>5, <1>6, <1>7, ReachIn
  <1> QED BY <1>8, <1>9

\* Of two buttons of a list one comes behind the other.
LEMMA ReachLinear ==
    ASSUME NEW nx \in Links, NEW hd \in Buttons \cup {NULL},
           NEW x \in Reach(nx, hd), NEW y \in Reach(nx, hd)
    PROVE  x \in Reach(nx, y) \/ y \in Reach(nx, x)
  <1> DEFINE L == Reach(nx, hd)
             S == {z \in L : x \in Reach(nx, z)} \cup Reach(nx, x)
  <1>1. x \in Buttons /\ L \in SUBSET Buttons /\ Closed(nx, L)
    BY ReachType, ReachClosed
  <1>2. S \in SUBSET Buttons
    BY <1>1, ReachType
  <1>3. hd \in S \cup {NULL}
    <2>1. hd # NULL => hd \in L
      BY ReachSelf
    <2> QED BY <2>1
  <1>4. Closed(nx, S)
    <2> SUFFICES ASSUME NEW c \in S PROVE nx[c] \in S \cup {NULL}
      BY DEF Closed
    <2>1. CASE c \in Reach(nx, x)
      <3>1. nx[c] \in Reach(nx, x) \cup {NULL}
        BY <1>1, <2>1, ReachClosed DEF Closed
      <3> QED BY <3>1
    <2>2. CASE c \in L /\ x \in Reach(nx, c)
      <3>1. c \in Buttons /\ nx[c] \in L \cup {NULL}
        BY <1>1, <2>2 DEF Closed
      <3>2. x = c \/ x \in Reach(nx, nx[c])
        BY <2>2, <3>1, ReachStep
      <3>3. CASE x = c
        <4>1. c \in Reach(nx, x)
          BY <1>1, <3>3, ReachSelf
        <4> QED BY <2>1, <4>1
      <3>4. CASE x \in Reach(nx, nx[c])
        BY <3>1, <3>4
      <3> QED BY <3>2, <3>3, <3>4
    <2> QED BY <2>1, <2>2
  <1>5. L \subseteq S
    <2> HIDE DEF S
    <2> QED BY <1>2, <1>3, <1>4, ReachIn
  <1> QED BY <1>5

\* In a list that does not run in a circle a button is behind one other at most.
LEMMA OneBefore ==
    ASSUME NEW nx \in Links, NEW hd \in Buttons \cup {NULL},
           \A b \in Reach(nx, hd) : b \notin Reach(nx, nx[b]),
           NEW p \in Reach(nx, hd), NEW c \in Reach(nx, hd), nx[p] = nx[c], nx[p] # NULL
    PROVE  p = c
  <1>1. p \in Buttons /\ c \in Buttons
    BY ReachType
  <1>2. Reach(nx, p) = {p} \cup Reach(nx, nx[p]) /\ Reach(nx, c) = {c} \cup Reach(nx, nx[c])
    BY <1>1, ReachStep
  <1>3. p \in Reach(nx, c) \/ c \in Reach(nx, p)
    BY ReachLinear
  <1> QED BY <1>2, <1>3

\* Links that only leave buttons out lead to no others, and not into a circle.
LEMMA Shortcut ==
    ASSUME NEW nx \in Links, NEW ny \in Links, NEW x \in Buttons \cup {NULL},
           \A c \in Buttons : ny[c] \in Reach(nx, nx[c]) \cup {NULL}
    PROVE  /\ Reach(ny, x) \subseteq Reach(nx, x)
           /\ \A b \in Buttons : b \notin Reach(nx, nx[b]) => b \notin Reach(ny, ny[b])
  <1>1. ASSUME NEW y \in Buttons \cup {NULL} PROVE Reach(ny, y) \subseteq Reach(nx, y)
    <2> DEFINE R == Reach(nx, y)
    <2>1. R \in SUBSET Buttons /\ y \in R \cup {NULL}
      BY ReachType, ReachSelf
    <2>2. ASSUME NEW c \in R PROVE ny[c] \in R \cup {NULL}
      <3>1. c \in Buttons /\ Reach(nx, c) \subseteq R
        BY <2>1, ReachTrans
      <3>2. Reach(nx, c) = {c} \cup Reach(nx, nx[c])
        BY <3>1, ReachStep
      <3> QED BY <3>1, <3>2
    <2>3. Closed(ny, R)
      BY <2>2 DEF Closed
    <2> HIDE DEF R
    <2>4. Reach(ny, y) \subseteq R
      BY <2>1, <2>3, ReachIn
    <2> QED BY <2>4 DEF R
  <1>2. ASSUME NEW b \in Buttons PROVE Reach(ny, ny[b]) \subseteq Reach(nx, nx[b])
    <2>1. nx[b] \in Buttons \cup {NULL} /\ ny[b] \in Buttons \cup {NULL}
      BY DEF Links
    <2>2. Reach(nx, ny[b]) \subseteq Reach(nx, nx[b])
      BY <2>1, ReachTrans
    <2> QED BY <1>1, <2>1, <2>2
  <1> QED BY <1>1, <1>2

\* Links that lead past s, all or some of them, lead to the same buttons but s.
LEMMA Bypass ==
    ASSUME NEW nx \in Links, NEW ny \in Links, NEW s \in Buttons, NEW x \in Buttons \cup {NULL},
           \A c \in Buttons : ny[c] = nx[c] \/ (nx[c] = s /\ ny[c] = nx[s])
    PROVE  /\ Reach(nx, x) \ {s} \subseteq Reach(ny, x)
           /\ \A c \in Buttons : ny[c] \in Reach(nx, nx[c]) \cup {NULL}
  <1> DEFINE R == Reach(ny, x)
             U == {c \in Buttons : c \in R \/ (c = s /\ \E d \in R : nx[d] = s)}
  <1>1. R \in SUBSET Buttons /\ Closed(ny, R) /\ x \in R \cup {NULL}
    BY ReachType, ReachClosed, ReachSelf
  <1> HIDE DEF R
  <1>2. Closed(nx, U)
    <2> SUFFICES ASSUME NEW c \in U PROVE nx[c] \in U \cup {NULL}
      BY DEF Closed
    <2>1. ASSUME NEW d \in R PROVE nx[d] \in U \cup {NULL}
      <3>1. ny[d] \in R \cup {NULL} /\ d \in Buttons
        BY <1>1 DEF Closed
      <3> QED BY <1>1, <3>1
    <2>2. CASE c \in R
      BY <2>1, <2>2
    <2>3. CASE c \notin R
      <3>1. PICK d \in R : nx[d] = s
        BY <2>3
      <3>2. c = s /\ d \in Buttons /\ ny[d] \in R \cup {NULL}
        BY <1>1, <2>3 DEF Closed
      <3>3. ny[d] = nx[s]
        BY <2>3, <3>1, <3>2, ButtonAssumption
      <3> QED BY <1>1, <3>2, <3>3
    <2> QED BY <2>2, <2>3
  <1>3. x \in U \cup {NULL} /\ U \in SUBSET Buttons /\ U \subseteq R \cup {s}
    BY <1>1
  <1> HIDE DEF U
  <1>4. Reach(nx, x) \subseteq U
    BY <1>2, <1>3, ReachIn
  <1>5. ASSUME NEW c \in Buttons PROVE ny[c] \in Reach(nx, nx[c]) \cup {NULL}
    <2>1. nx[c] \in Buttons \cup {NULL} /\ nx[c] \in Reach(nx, nx[c]) \cup {NULL}
      BY ReachSelf DEF Links
    <2>2. nx[s] \in Reach(nx, s) \cup {NULL}
      BY ReachSelf, ReachClosed DEF Closed
    <2> QED BY <2>1, <2>2
  <1> QED BY <1>3, <1>4, <1>5 DEF R

\* Links and head before (nx, hd) and after (ny, hy) button s was taken out.
Removed(nx, hd, ny, hy, s) ==
    \/ hd = s /\ hy = nx[s] /\ ny = nx
    \/ /\ hd # s /\ hy = hd
       /\ \A c \in Reach(nx, hd) : ny[c] = IF nx[c] = s THEN nx[s] ELSE nx[c]

\* Taking a button out of the list takes it out of every walk through it, but
\* leaves its own way back into the list.
LEMMA Unlinked ==
    ASSUME NEW nx \in Links, NEW ny \in Links, NEW hd \in Buttons \cup {NULL}, NEW hy,
           \A b \in Reach(nx, hd) : b \notin Reach(nx, nx[b]),
           NEW s \in Reach(nx, hd), Removed(nx, hd, ny, hy, s)
    PROVE  /\ hy \in Buttons \cup {NULL}
           /\ Reach(ny, hy) = Reach(nx, hd) \ {s}
           /\ \A x \in Reach(nx, hd) \ {s} : Reach(ny, x) = Reach(nx, x) \ {s}
           /\ \A b \in Reach(ny, hy) : b \notin Reach(ny, ny[b])
           /\ ny[s] = nx[s] /\ Reach(ny, nx[s]) = Reach(nx, nx[s])
  <1> DEFINE L == Reach(nx, hd)
  <1>1. s \in Buttons /\ L \in SUBSET Buttons /\ Closed(nx, L) /\ nx[s] \in L \cup {NULL}
    BY ReachType, ReachClosed DEF Closed
  <1>2. nx[s] # s /\ s \notin Reach(nx, nx[s])
    <2>1. s \notin Reach(nx, nx[s])
      OBVIOUS
    <2> QED BY <1>1, <2>1, ReachSelf
  <1>3. CASE hd = s /\ hy = nx[s] /\ ny = nx
    <2>1. L = {s} \cup Reach(nx, nx[s])
      BY <1>1, <1>3, ReachStep
    <2>2. ASSUME NEW x \in L \ {s} PROVE Reach(nx, x) = Reach(nx, x) \ {s}
      <3>1. nx[s] \in Buttons \cup {NULL} /\ x \in Reach(nx, nx[s])
        BY <1>1, <2>1
      <3>2. Reach(nx, x) \subseteq Reach(nx, nx[s])
        BY <3>1, ReachTrans
      <3> QED BY <1>2, <3>2
    <2>3. hy \in Buttons \cup {NULL}
      BY <1>1, <1>3
    <2>4. Reach(ny, hy) = L \ {s}
      BY <1>2, <1>3, <2>1
    <2> QED BY <1>3, <2>2, <2>3, <2>4
  <1>4. CASE /\ hd # s /\ hy = hd
             /\ \A c \in L : ny[c] = IF nx[c] = s THEN nx[s] ELSE nx[c]
    <2>1. ASSUME NEW x \in L \ {s} PROVE Reach(ny, x) \subseteq Reach(nx, x) \ {s}
      <3> DEFINE T == Reach(nx, x) \ {s}
      <3>1. x \in Buttons /\ Closed(nx, Reach(nx, x)) /\ Reach(nx, x) \subseteq L
        BY <1>1, ReachClosed, ReachTrans
      <3>2. Closed(ny, T)
        <4> SUFFICES ASSUME NEW c \in T PROVE ny[c] \in T \cup {NULL}
          BY DEF Closed
        <4>1. c \in L /\ nx[c] \in Reach(nx, x) \cup {NULL}
          BY <3>1 DEF Closed
        <4>2. CASE nx[c] = s
          <5>1. ny[c] = nx[s]
            BY <1>4, <4>1, <4>2
          <5>2. s \in Reach(nx, x)
            BY <1>1, <4>1, <4>2, ButtonAssumption
          <5>3. nx[s] \in Reach(nx, x) \cup {NULL}
            BY <3>1, <5>2 DEF Closed
          <5> QED BY <1>2, <5>1, <5>3
        <4>3. CASE nx[c] # s
          BY <1>4, <4>1, <4>3
        <4> QED BY <4>2, <4>3
      <3>3. x \in T \cup {NULL} /\ T \in SUBSET Buttons
        BY <1>1, <3>1, ReachSelf
      <3> HIDE DEF T
      <3>4. Reach(ny, x) \subseteq T
        BY <3>2, <3>3, ReachIn
      <3> QED BY <3>4 DEF T
    <2>2. ASSUME NEW x \in L \ {s} PROVE Reach(nx, x) \ {s} \subseteq Reach(ny, x)
      <3> DEFINE R == Reach(ny, x)
                 U == {c \in Buttons : c \in R \/ (c = s /\ \E d \in R : nx[d] = s)}
      <3>1. x \in Buttons /\ R \in SUBSET Buttons /\ Closed(ny, R) /\ x \in R /\ R \subseteq L
        <4>1. x \in Buttons
          BY <1>1
        <4>2. Reach(nx, x) \subseteq L
          BY <1>1, ReachTrans
        <4> QED BY <2>1, <4>1, <4>2, ReachClosed, ReachType, ReachSelf
      <3> HIDE DEF R
      <3>2. Closed(nx, U)
        <4> SUFFICES ASSUME NEW c \in U PROVE nx[c] \in U \cup {NULL}
          BY DEF Closed
        <4>1. CASE c \in R /\ nx[c] = s
          BY <1>1, <4>1
        <4>2. CASE c \in R /\ nx[c] # s
          <5>1. ny[c] = nx[c]
            BY <1>4, <3>1, <4>2
          <5> QED BY <3>1, <4>2, <5>1 DEF Closed
        <4>3. CASE c = s /\ \E d \in R : nx[d] = s
          <5>1. PICK d \in R : nx[d] = s
            BY <4>3
          <5>2. ny[d] = nx[s]
            BY <1>4, <3>1, <5>1
          <5>3. ny[d] \in R \cup {NULL}
            BY <3>1 DEF Closed
          <5> QED BY <3>1, <4>3, <5>2, <5>3
        <4> QED BY <4>1, <4>2, <4>3
      <3>3. x \in U \cup {NULL} /\ U \in SUBSET Buttons
        BY <3>1
      <3>4. U \subseteq R \cup {s}
        OBVIOUS
      <3> HIDE DEF U
      <3>5. Reach(nx, x) \subseteq U
        BY <3>2, <3>3, ReachIn
      <3> QED BY <3>4, <3>5 DEF R
    <2>3. \A x \in L \ {s} : Reach(ny, x) = Reach(nx, x) \ {s}
      BY <2>1, <2>2
    <2>4. hd \in L \ {s} /\ hy \in Buttons \cup {NULL} /\ Reach(ny, hy) = L \ {s}
      <3>1. hd # NULL
        BY ReachNull
      <3>2. hd \in L
        BY <3>1, ReachSelf
      <3> QED BY <1>4, <2>3, <3>2
    <2>5. ny[s] = nx[s]
      BY <1>2, <1>4
    <2>6. Reach(ny, nx[s]) = Reach(nx, nx[s])
      <3>1. CASE nx[s] = NULL
        BY <3>1, ReachNull
      <3>2. CASE nx[s] # NULL
        <4>1. nx[s] \in L \ {s}
          BY <1>1, <1>2, <3>2
        <4> QED BY <1>2, <2>3, <4>1
      <3> QED BY <3>1, <3>2
    <2>7. ASSUME NEW b \in L \ {s} PROVE b \notin Reach(ny, ny[b])
      <3>1. b \in Buttons /\ nx[b] \in L \cup {NULL} /\ b \notin Reach(nx, nx[b])
        BY <1>1 DEF Closed
      <3>2. CASE nx[b] = s
        <4>1. ny[b] = nx[s]
          BY <1>4, <3>2
        <4>2. Reach(nx, s) = {s} \cup Reach(nx, nx[s])
          BY <1>1, ReachStep
        <4> QED BY <2>6, <3>1, <3>2, <4>1, <4>2
      <3>3. CASE nx[b] # s
        <4>1. ny[b] = nx[b]
          BY <1>4, <3>3
        <4>2. CASE nx[b] = NULL
          BY <4>1, <4>2, ReachNull
        <4>3. CASE nx[b] # NULL
          <5>1. nx[b] \in L \ {s}
            BY <3>1, <3>3, <4>3
          <5> QED BY <2>3, <3>1, <4>1, <5>1
        <4> QED BY <4>2, <4>3
      <3> QED BY <3>2, <3>3
    <2> QED BY <2>3, <2>4, <2>5, <2>6, <2>7
  <1> QED BY <1>3, <1>4 DEF Removed

-----------------------------------------------------------------------------
(* The list under the main program.                                        *)

\* A step that changes nothing of the list keeps it.
LEMMA ListStutter ==
    ASSUME ListInv, AloneInv, UNCHANGED <<list, isr, main, started, done, crossed>>
    PROVE  ListInv' /\ AloneInv'
  BY DEF ListInv, ListType, MainType, Acyclic, MainInv, WalkInv, AloneInv, Alone, Listed, Rest, list

\* A step of the main program keeps the walk, which is not under way.
LEMMA WalkRests ==
    ASSUME ListInv, isr = NULL, isr' = isr, done' = done
    PROVE  WalkInv'
  <1>1. Reach(next', NULL) = {}
    BY ReachNull
  <1> QED BY <1>1 DEF ListInv, WalkInv

\* What the invariants say of the list.
LEMMA ListFacts ==
    ASSUME ListInv
    PROVE  /\ head \in Buttons \cup {NULL} /\ next \in Links /\ MainType /\ crossed \in BOOLEAN
           /\ started \subseteq Listed /\ Listed \in SUBSET Buttons /\ Closed(next, Listed)
           /\ head \in Listed \cup {NULL} /\ Listed = Reach(next, head)
           /\ main.op \in {"none", "search", "link", "head", "stop"}
  <1>1. head \in Buttons \cup {NULL} /\ next \in Links /\ MainType /\ crossed \in BOOLEAN
    BY DEF ListInv, ListType
  <1>2. Listed \in SUBSET Buttons /\ Closed(next, Listed) /\ head \in Listed \cup {NULL}
    BY <1>1, ReachType, ReachClosed, ReachSelf DEF Listed
  <1>3. main.op \in {"none", "search", "link", "head", "stop"}
    BY <1>1 DEF MainType
  <1> QED BY <1>1, <1>2, <1>3 DEF ListInv, MainInv, Listed

LEMMA InitList == Init => ListInv /\ AloneInv
  <1> SUFFICES ASSUME Init PROVE ListInv /\ AloneInv
    OBVIOUS
  <1>1. ListType /\ MainType
    BY DEF Init, ListType, MainType, Rest, Links
  <1>2. Listed = {} /\ \A b \in Buttons : Reach(next, next[b]) = {}
    BY ReachNull DEF Init, Listed
  <1>3. Acyclic /\ MainInv /\ AloneInv
    BY <1>2 DEF Init, Acyclic, MainInv, Rest, AloneInv, Alone
  <1>4. WalkInv
    BY DEF Init, WalkInv
  <1> QED BY <1>1, <1>3, <1>4 DEF ListInv

\* A link of a button outside the list is of no effect on the list.
LEMMA Outside ==
    ASSUME ListInv, NEW b \in Buttons \ Listed, NEW to \in Buttons \cup {NULL},
           next' = [next EXCEPT ![b] = to], head' = head
    PROVE  /\ next' \in Links /\ Listed' = Listed /\ next'[b] = to
           /\ \A x \in Listed \cup {NULL} : Reach(next', x) = Reach(next, x)
  <1>1. /\ head \in Buttons \cup {NULL} /\ next \in Links /\ Listed \in SUBSET Buttons
        /\ Closed(next, Listed) /\ head \in Listed \cup {NULL}
    BY ListFacts
  <1>2. next' \in Links /\ next'[b] = to /\ \A c \in Listed : next'[c] = next[c]
    BY <1>1 DEF Links
  <1>3. \A x \in Listed \cup {NULL} : Reach(next', x) = Reach(next, x)
    BY <1>1, <1>2, ReachLocal
  <1> QED BY <1>1, <1>2, <1>3 DEF Listed

LEMMA InitButton ==
    ASSUME ListInv, AloneInv, NEW b \in Buttons, button_init(b) PROVE ListInv' /\ AloneInv'
  <1>1. /\ isr = NULL /\ main = Rest /\ b \notin Listed /\ next' = [next EXCEPT ![b] = NULL]
        /\ head' = head /\ isr' = isr /\ main' = main /\ started' = started /\ done' = done
        /\ crossed' = crossed
    BY DEF button_init
  <1>2. next \in Links /\ started \subseteq Listed /\ next' \in Links /\ Listed' = Listed
    BY <1>1, ListFacts, Outside
  <1>3. Acyclic'
    <2>1. \A c \in Buttons : next'[c] \in Reach(next, next[c]) \cup {NULL}
      BY <1>1, <1>2, ReachSelf DEF Links
    <2> QED BY <1>2, <2>1, Shortcut DEF Acyclic, ListInv
  <1>4. MainInv' /\ MainType' /\ AloneInv'
    BY <1>1, <1>2 DEF MainInv, ListInv, MainType, Rest, AloneInv, Alone
  <1>5. ListType'
    BY <1>1, <1>2 DEF ListType, ListInv
  <1> QED BY <1>1, <1>3, <1>4, <1>5, WalkRests DEF ListInv

LEMMA StartButton ==
    ASSUME ListInv, AloneInv, NEW b \in Buttons, button_start(b) PROVE ListInv' /\ AloneInv'
  <1>1. /\ isr = NULL /\ main = Rest /\ main' = [op |-> "search", h |-> b, at |-> head]
        /\ head' = head /\ next' = next /\ isr' = isr /\ started' = started /\ done' = done
        /\ crossed' = crossed
    BY DEF button_start, list
  <1>2. head \in Buttons \cup {NULL} /\ started \subseteq Listed /\ Listed' = Listed
    BY <1>1, ListFacts DEF Listed
  <1>3. MainType' /\ MainInv'
    BY <1>1, <1>2 DEF MainType, MainInv, Listed
  <1>4. AloneInv'
    BY <1>1, <1>2 DEF AloneInv, Alone, Rest
  <1>5. ListType' /\ Acyclic'
    BY <1>1 DEF ListType, ListInv, Acyclic
  <1> QED BY <1>1, <1>3, <1>4, <1>5, WalkRests DEF ListInv

LEMMA SearchStep ==
    ASSUME ListInv, AloneInv, StartSearch PROVE ListInv' /\ AloneInv'
  <1>1. /\ isr = NULL /\ main.op = "search"
        /\ main' = IF main.at = NULL THEN [main EXCEPT !.op = "link"]
                   ELSE IF main.at = main.h THEN Rest
                   ELSE [main EXCEPT !.at = next[main.at]]
        /\ head' = head /\ next' = next /\ isr' = isr /\ started' = started /\ done' = done
        /\ crossed' = crossed
    BY DEF StartSearch, list
  <1>2. /\ next \in Links /\ MainType /\ main.h \in Buttons /\ main.at \in Buttons \cup {NULL}
        /\ main.h \in Listed => main.h \in Reach(next, main.at)
        /\ started \subseteq Listed /\ Listed' = Listed
    BY <1>1, ListFacts DEF ListInv, MainInv, Listed
  <1>3. ~crossed => Listed = started
    BY <1>1 DEF AloneInv, Alone, Rest
  <1>4. MainType' /\ MainInv' /\ AloneInv'
    <2>1. CASE main.at = NULL
      <3>1. main' = [main EXCEPT !.op = "link"] /\ main.h \notin Listed
        BY <1>1, <1>2, <2>1, ReachNull
      <3>2. main'.op = "link" /\ main'.h = main.h /\ MainType'
        BY <1>2, <3>1 DEF MainType
      <3> QED BY <1>1, <1>2, <1>3, <3>1, <3>2 DEF MainInv, AloneInv, Alone
    <2>2. CASE main.at # NULL /\ main.at = main.h
      <3>1. main' = Rest
        BY <1>1, <2>2
      <3> QED BY <1>1, <1>2, <1>3, <3>1 DEF MainInv, MainType, Rest, AloneInv, Alone
    <2>3. CASE main.at # NULL /\ main.at # main.h
      <3>1. main' = [main EXCEPT !.at = next[main.at]] /\ main.at \in Buttons
        BY <1>1, <1>2, <2>3
      <3>2. next[main.at] \in Buttons \cup {NULL}
        BY <1>2, <3>1 DEF Links
      <3>3. main.h \in Listed => main.h \in Reach(next, next[main.at])
        BY <1>2, <2>3, <3>1, ReachStep
      <3>4. main'.op = "search" /\ main'.h = main.h /\ main'.at = next[main.at] /\ MainType'
        BY <1>1, <1>2, <3>1, <3>2 DEF MainType
      <3> QED BY <1>1, <1>2, <1>3, <3>2, <3>3, <3>4 DEF MainInv, AloneInv, Alone
    <2> QED BY <2>1, <2>2, <2>3
  <1>5. ListType' /\ Acyclic'
    BY <1>1 DEF ListType, ListInv, Acyclic
  <1> QED BY <1>1, <1>4, <1>5, WalkRests DEF ListInv

LEMMA LinkStep ==
    ASSUME ListInv, AloneInv, StartLink PROVE ListInv' /\ AloneInv'
  <1>1. /\ isr = NULL /\ main.op = "link" /\ next' = [next EXCEPT ![main.h] = head]
        /\ main' = [main EXCEPT !.op = "head"]
        /\ head' = head /\ isr' = isr /\ started' = started /\ done' = done /\ crossed' = crossed
    BY DEF StartLink
  <1> DEFINE h == main.h
  <1>2. /\ head \in Buttons \cup {NULL} /\ next \in Links /\ MainType
        /\ h \in Buttons \ Listed /\ started \subseteq Listed
        /\ Listed \in SUBSET Buttons /\ Closed(next, Listed) /\ Listed = Reach(next, head)
        /\ head \in Listed \cup {NULL}
    BY <1>1, ListFacts DEF ListInv, MainInv
  <1>3. /\ next' \in Links /\ Listed' = Listed /\ next'[h] = head
        /\ \A x \in Listed \cup {NULL} : Reach(next', x) = Reach(next, x)
    BY <1>1, <1>2, Outside
  <1>4. main'.op = "head" /\ main'.h = h /\ MainType'
    BY <1>1, <1>2 DEF MainType
  <1> HIDE DEF h
  <1>5. Acyclic'
    <2> SUFFICES ASSUME NEW b \in Buttons PROVE b \notin Reach(next', next'[b])
      BY DEF Acyclic
    <2>1. b \notin Reach(next, next[b])
      BY DEF ListInv, Acyclic
    <2>2. CASE b = h
      BY <1>2, <1>3, <2>2
    <2>3. CASE b # h
      <3> DEFINE x == next[b]
                 T == Reach(next, x) \cup Listed
      <3>1. x \in Buttons \cup {NULL} /\ next'[b] = x
        BY <1>1, <1>2, <2>3 DEF Links, h
      <3>2. CASE b \in Listed
        <4>1. x \in Listed \cup {NULL}
          BY <1>2, <3>2 DEF Closed
        <4> QED BY <1>3, <2>1, <3>1, <4>1
      <3>3. CASE b \notin Listed
        <4>1. T \in SUBSET Buttons /\ x \in T \cup {NULL}
          BY <1>2, <3>1, ReachType, ReachSelf
        <4>2. ASSUME NEW c \in T PROVE next'[c] \in T \cup {NULL}
          <5>1. CASE c = h
            BY <1>2, <1>3, <5>1
          <5>2. CASE c # h
            <6>1. next'[c] = next[c]
              BY <1>1, <1>2, <4>1, <5>2 DEF Links, h
            <6>2. Closed(next, Reach(next, x))
              BY <1>2, <3>1, ReachClosed
            <6> QED BY <1>2, <6>1, <6>2 DEF Closed
          <5> QED BY <5>1, <5>2
        <4>3. Closed(next', T)
          BY <4>2 DEF Closed
        <4> HIDE DEF T
        <4>4. Reach(next', x) \subseteq T
          BY <4>1, <4>3, ReachIn
        <4> QED BY <2>1, <3>1, <3>3, <4>4 DEF T
      <3> QED BY <3>2, <3>3
    <2> QED BY <2>2, <2>3
  <1>6. MainInv'
    <2>1. Listed' = Reach(next', next'[h])
      BY <1>1, <1>3 DEF Listed
    <2> QED BY <1>1, <1>2, <1>3, <1>4, <2>1 DEF MainInv
  <1>7. AloneInv'
    BY <1>1, <1>3, <1>4 DEF AloneInv, Alone, Rest
  <1>8. ListType'
    BY <1>1, <1>3 DEF ListType, ListInv
  <1> QED BY <1>1, <1>4, <1>5, <1>6, <1>7, <1>8, WalkRests DEF ListInv

LEMMA HeadStep ==
    ASSUME ListInv, AloneInv, StartHead PROVE ListInv' /\ AloneInv'
  <1>1. /\ isr = NULL /\ main.op = "head" /\ head' = main.h /\ main' = Rest
        /\ started' = started \cup {main.h} /\ next' = next /\ isr' = isr /\ done' = done
        /\ crossed' = crossed
    BY DEF StartHead
  <1>2. /\ next \in Links /\ started \subseteq Listed /\ Listed = Reach(next, head)
        /\ main.h \in Buttons /\ Listed \subseteq Reach(next, next[main.h])
    BY <1>1, ListFacts DEF ListInv, MainInv
  <1>3. Listed' = {main.h} \cup Reach(next, next[main.h])
    BY <1>1, <1>2, ReachStep DEF Listed
  <1>4. MainInv' /\ MainType'
    BY <1>1, <1>2, <1>3 DEF MainInv, MainType, Rest
  <1>5. AloneInv'
    <2>1. ~crossed => Listed = started /\ next[main.h] = head
      BY <1>1 DEF AloneInv, Alone, Rest
    <2> QED BY <1>1, <1>2, <1>3, <2>1 DEF AloneInv, Alone
  <1>6. ListType' /\ Acyclic'
    BY <1>1, <1>2 DEF ListType, ListInv, Acyclic
  <1> QED BY <1>1, <1>4, <1>5, <1>6, WalkRests DEF ListInv

LEMMA StopButton ==
    ASSUME ListInv, AloneInv, NEW b \in Buttons, button_stop(b) PROVE ListInv' /\ AloneInv'
  <1>1. /\ isr = NULL /\ main = Rest /\ main' = [op |-> "stop", h |-> b, at |-> "head"]
        /\ started' = started \ {b} /\ crossed' = crossed
        /\ head' = head /\ next' = next /\ isr' = isr /\ done' = done
    BY DEF button_stop, list
  <1>2. started \subseteq Listed /\ Listed' = Listed
    BY <1>1, ListFacts DEF Listed
  <1>3. MainType' /\ MainInv'
    BY <1>1, <1>2 DEF MainType, MainInv
  <1>4. AloneInv'
    BY <1>1, <1>2 DEF AloneInv, Alone, Rest
  <1>5. ListType' /\ Acyclic'
    BY <1>1 DEF ListType, ListInv, Acyclic
  <1> QED BY <1>1, <1>3, <1>4, <1>5, WalkRests DEF ListInv

\* One turn of the loop of button_stop goes on, unlinks the button, or ends.
LEMMA StopLoop ==
    ASSUME ListInv, AloneInv, StopStep PROVE ListInv' /\ AloneInv'
  <1> DEFINE entry == IF main.at = "head" THEN head ELSE next[main.at]
  <1>1. /\ isr = NULL /\ main.op = "stop"
        /\ \/ entry = NULL /\ main' = Rest /\ UNCHANGED list
           \/ /\ entry = main.h /\ UNCHANGED main
              /\ IF main.at = "head" THEN head' = next[entry] /\ UNCHANGED next
                 ELSE next' = [next EXCEPT ![main.at] = next[entry]] /\ UNCHANGED head
           \/ entry \notin {NULL, main.h} /\ main' = [main EXCEPT !.at = entry] /\ UNCHANGED list
        /\ isr' = isr /\ started' = started /\ done' = done /\ crossed' = crossed
    BY DEF StopStep
  <1>2. /\ head \in Buttons \cup {NULL} /\ next \in Links /\ MainType /\ Listed = Reach(next, head)
        /\ main.h \in Buttons \ started /\ main.at \in Buttons \cup {"head"}
        /\ started \subseteq Listed /\ Listed \in SUBSET Buttons /\ Closed(next, Listed)
        /\ head \in Listed \cup {NULL} /\ crossed \in BOOLEAN
    BY <1>1, ListFacts DEF ListInv, MainInv
  <1>3. ~crossed =>
           /\ Listed \subseteq started \cup {main.h}
           /\ \/ main.at = "head"
              \/ /\ main.at \in Listed \ {main.h}
                 /\ main.h \in Listed => main.h \in Reach(next, next[main.at])
    BY <1>1 DEF AloneInv, Alone, Rest
  <1>4. entry \in Buttons \cup {NULL}
    BY <1>2 DEF Links
  <1>5. ~crossed => /\ entry \in Listed \cup {NULL}
                    /\ main.h \in Listed => main.h \in Reach(next, entry)
    <2>1. CASE main.at = "head"
      BY <1>2, <2>1
    <2>2. CASE main.at # "head"
      <3>1. ~crossed => main.at \in Listed /\ next[main.at] \in Listed \cup {NULL}
        BY <1>2, <1>3, <2>2 DEF Closed
      <3> QED BY <1>3, <2>2, <3>1
    <2> QED BY <2>1, <2>2
  <1> HIDE DEF entry
  <1>6. CASE entry = NULL /\ main' = Rest /\ UNCHANGED list
    <2>1. Listed' = Listed /\ next' = next /\ head' = head
      BY <1>6 DEF Listed, list
    <2>2. ~crossed => Listed = started
      BY <1>2, <1>3, <1>5, <1>6, ReachNull
    <2>3. MainInv' /\ MainType' /\ AloneInv'
      BY <1>1, <1>2, <1>6, <2>1, <2>2 DEF MainInv, MainType, Rest, AloneInv, Alone
    <2>4. ListType' /\ Acyclic'
      BY <1>1, <2>1 DEF ListType, ListInv, Acyclic
    <2> QED BY <1>1, <2>3, <2>4, WalkRests DEF ListInv
  <1>7. CASE entry \notin {NULL, main.h} /\ main' = [main EXCEPT !.at = entry] /\ UNCHANGED list
    <2>1. Listed' = Listed /\ next' = next /\ head' = head
      BY <1>7 DEF Listed, list
    <2>2. entry \in Buttons
      BY <1>4, <1>7
    <2>3. ~crossed => (main.h \in Listed => main.h \in Reach(next, next[entry]))
      BY <1>2, <1>5, <1>7, <2>2, ReachStep
    <2>4. main'.op = "stop" /\ main'.h = main.h /\ main'.at = entry /\ MainType'
      BY <1>1, <1>2, <1>7, <2>2 DEF MainType
    <2>5. MainInv'
      BY <1>1, <1>2, <2>1, <2>2, <2>4 DEF MainInv
    <2>6. AloneInv'
      BY <1>1, <1>2, <1>3, <1>5, <1>7, <2>1, <2>2, <2>3, <2>4 DEF AloneInv, Alone
    <2>7. ListType' /\ Acyclic'
      BY <1>1, <2>1 DEF ListType, ListInv, Acyclic
    <2> QED BY <1>1, <2>4, <2>5, <2>6, <2>7, WalkRests DEF ListInv
  <1>8. CASE /\ entry = main.h /\ UNCHANGED main
             /\ IF main.at = "head" THEN head' = next[entry] /\ UNCHANGED next
                ELSE next' = [next EXCEPT ![main.at] = next[entry]] /\ UNCHANGED head
    <2> DEFINE s == main.h
    <2>1. s \in Buttons /\ next[s] \in Buttons \cup {NULL}
      BY <1>2 DEF Links
    <2>2. /\ next' \in Links /\ head' \in Buttons \cup {NULL}
          /\ \A c \in Buttons : next'[c] = next[c] \/ (next[c] = s /\ next'[c] = next[s])
          /\ main.at = "head" => head = s /\ head' = next[s] /\ next' = next
          /\ main.at # "head" => /\ main.at \in Buttons /\ next[main.at] = s /\ head' = head
                                 /\ next' = [next EXCEPT ![main.at] = next[s]]
      BY <1>2, <1>8, <2>1 DEF Links, entry
    <2>3. main' = main
      BY <1>8
    <2> HIDE DEF s
    <2>4. /\ \A x \in Buttons \cup {NULL} : Reach(next, x) \ {s} \subseteq Reach(next', x)
          /\ \A c \in Buttons : next'[c] \in Reach(next, next[c]) \cup {NULL}
      BY <1>2, <2>1, <2>2, Bypass
    <2>5. Acyclic'
      BY <1>2, <2>2, <2>4, Shortcut DEF ListInv, Acyclic
    <2>6. Listed \ {s} \subseteq Listed'
      <3>1. CASE main.at = "head"
        <4>1. Listed = {s} \cup Reach(next, next[s])
          BY <1>2, <2>1, <2>2, <3>1, ReachStep
        <4> QED BY <2>2, <3>1, <4>1 DEF Listed
      <3>2. CASE main.at # "head"
        BY <1>2, <2>2, <2>4, <3>2 DEF Listed
      <3> QED BY <3>1, <3>2
    <2>7. MainInv' /\ MainType'
      BY <1>1, <1>2, <2>3, <2>6 DEF MainInv, MainType, s
    <2>8. AloneInv'
      <3> SUFFICES ASSUME ~crossed PROVE Alone'
        BY <1>1 DEF AloneInv
      <3>1. s \in Listed
        BY <1>5, <1>8, <2>1, ButtonAssumption DEF s
      <3>2. \A b \in Listed : b \notin Reach(next, next[b])
        BY <1>2 DEF ListInv, Acyclic
      <3>3. Removed(next, head, next', head', s)
        <4>1. CASE main.at = "head"
          BY <2>2, <4>1 DEF Removed
        <4>2. CASE main.at # "head"
          <5>1. main.at \in Listed /\ main.at # s
            BY <1>3, <4>2 DEF s
          <5>2. head # s
            <6> SUFFICES ASSUME head = s PROVE FALSE
              OBVIOUS
            <6>1. Listed = {s} \cup Reach(next, next[s])
              BY <1>2, <2>1, ReachStep
            <6>2. main.at \in Reach(next, next[s])
              BY <5>1, <6>1
            <6>3. Reach(next, main.at) = {main.at} \cup Reach(next, s)
              BY <1>2, <2>2, <4>2, ReachStep
            <6>4. Reach(next, main.at) \subseteq Reach(next, next[s])
              BY <1>2, <2>1, <6>2, ReachTrans
            <6>5. s \in Reach(next, s)
              BY <1>2, <2>1, ReachSelf
            <6> QED BY <3>1, <3>2, <6>3, <6>4, <6>5
          <5>3. ASSUME NEW c \in Listed PROVE next'[c] = IF next[c] = s THEN next[s] ELSE next[c]
            <6>1. c \in Buttons
              BY <1>2
            <6>2. next[c] = s => c = main.at
              BY <1>2, <2>1, <2>2, <3>2, <4>2, <5>1, OneBefore, ButtonAssumption
            <6> QED BY <1>2, <2>2, <4>2, <6>1, <6>2 DEF Links
          <5> QED BY <1>2, <2>2, <4>2, <5>2, <5>3 DEF Removed
        <4> QED BY <4>1, <4>2
      <3>4. Reach(next', head') = Reach(next, head) \ {s}
        BY <1>2, <2>2, <3>1, <3>2, <3>3, Unlinked
      <3>5. Listed' = Listed \ {s}
        BY <1>2, <3>4 DEF Listed
      <3> QED BY <1>1, <1>3, <2>3, <3>5 DEF Alone, s
    <2>9. ListType'
      BY <1>1, <1>2, <2>2 DEF ListType, ListInv
    <2> QED BY <1>1, <2>5, <2>7, <2>8, <2>9, WalkRests DEF ListInv
  <1> QED BY <1>1, <1>6, <1>7, <1>8

-----------------------------------------------------------------------------
(* The list under the interrupt.                                           *)

LEMMA TicksStep ==
    ASSUME ListInv, AloneInv, button_ticks PROVE ListInv' /\ AloneInv'
  <1>1. /\ isr = NULL /\ isr' = head /\ head' = head /\ next' = next /\ main' = main
        /\ started' = started /\ done' = done /\ crossed' = crossed
    BY DEF button_ticks, list
  <1>2. Listed' = Listed /\ done = {} /\ head \in Buttons \cup {NULL} /\ next \in Links
    BY <1>1 DEF ListInv, ListType, WalkInv, Listed
  <1>3. WalkInv'
    BY <1>1, <1>2, ReachSelf DEF WalkInv, Listed
  <1>4. ListType' /\ MainType' /\ Acyclic' /\ MainInv' /\ AloneInv'
    BY <1>1, <1>2 DEF ListInv, ListType, MainType, Acyclic, MainInv, Rest, AloneInv, Alone
  <1> QED BY <1>3, <1>4 DEF ListInv

\* What a call of button_handler does to the list and to the walk through it.
Handled(b) ==
    /\ isr = b /\ main' = main
    /\ \/ UNCHANGED <<list, started, crossed>>
       \/ (\E s \in Buttons : Stop(s)) /\ crossed' = (crossed \/ main # Rest)
    /\ isr' = next'[b] /\ done' = IF next'[b] = NULL THEN {} ELSE done \cup {b}

LEMMA HandlerHandles ==
    ASSUME NEW b \in Buttons, button_handler(b)
    PROVE  Handled(b)
  <1>1. ASSUME NEW to, NEW evs, Go(b, to, evs) PROVE Handled(b)
    BY <1>1 DEF Go, Callbacks, Handled
  <1>2. CASE Idle(b)
    BY <1>2 DEF Idle, Handled, list
  <1>3. CASE PressDown(b) \/ PressUp(b)
    BY <1>1, <1>3 DEF PressDown, PressUp
  <1>4. CASE LongPress(b)
    BY <1>1, <1>4 DEF LongPress
  <1>5. CASE PressAgain(b) \/ Click(b)
    BY <1>1, <1>5 DEF PressAgain, Click
  <1>6. CASE Repeated(b) \/ Hold(b) \/ Again(b)
    BY <1>1, <1>6 DEF Repeated, Hold, Again
  <1> QED BY <1>2, <1>3, <1>4, <1>5, <1>6 DEF button_handler

\* A callback takes its button out of the list and out of every walk through it, and leaves
\* the main program what it was to find.
LEMMA Stopped ==
    ASSUME ListInv, AloneInv, NEW s \in Buttons, Stop(s), main' = main,
           crossed' = (crossed \/ main # Rest)
    PROVE  /\ isr' \in Buttons \cup {NULL} /\ done' \subseteq Buttons => ListType'
           /\ MainType' /\ Acyclic' /\ MainInv' /\ AloneInv' /\ next' \in Links
           /\ Listed' = Listed \ {s} /\ started' = started \ {s} /\ s \in Listed
           /\ \A x \in Listed \ {s} : Reach(next', x) = Reach(next, x) \ {s}
           /\ next'[s] = next[s] /\ Reach(next', next[s]) = Reach(next, next[s])
  <1>1. /\ head \in Buttons \cup {NULL} /\ next \in Links /\ MainType /\ Listed = Reach(next, head)
        /\ started \subseteq Listed /\ Listed \in SUBSET Buttons /\ crossed \in BOOLEAN
        /\ Acyclic /\ MainInv
    BY ListFacts DEF ListInv
  <1>2. s \in Listed /\ started' = started \ {s} /\ next[s] \in Buttons \cup {NULL}
    BY <1>1 DEF Stop, Links
  <1>3. /\ next' \in Links /\ Removed(next, head, next', head', s)
        /\ \A c \in Buttons : next'[c] = next[c] \/ (next[c] = s /\ next'[c] = next[s])
        /\ \A c \in Buttons \ Listed : next'[c] = next[c]
    <2>1. CASE head = s
      BY <1>1, <2>1 DEF Stop, Removed
    <2>2. CASE head # s
      <3>1. /\ next' = [c \in Buttons |-> IF c \in Listed /\ next[c] = s THEN next[s] ELSE next[c]]
            /\ head' = head
        BY <2>2 DEF Stop
      <3>2. next' \in Links
        BY <1>1, <1>2, <3>1 DEF Links
      <3>3. \A c \in Listed : next'[c] = IF next[c] = s THEN next[s] ELSE next[c]
        BY <1>1, <3>1
      <3>4. Removed(next, head, next', head', s)
        BY <1>1, <2>2, <3>1, <3>3 DEF Removed
      <3> QED BY <3>1, <3>2, <3>4
    <2> QED BY <2>1, <2>2
  <1>4. /\ head' \in Buttons \cup {NULL} /\ Reach(next', head') = Reach(next, head) \ {s}
        /\ \A x \in Reach(next, head) \ {s} : Reach(next', x) = Reach(next, x) \ {s}
        /\ \A x \in Reach(next', head') : x \notin Reach(next', next'[x])
        /\ next'[s] = next[s] /\ Reach(next', next[s]) = Reach(next, next[s])
    <2>1. \A x \in Reach(next, head) : x \notin Reach(next, next[x])
      BY <1>1 DEF Acyclic
    <2>2. s \in Reach(next, head) /\ Removed(next, head, next', head', s)
      BY <1>1, <1>2, <1>3
    <2>3. next \in Links /\ next' \in Links /\ head \in Buttons \cup {NULL}
      BY <1>1, <1>3
    <2> QED BY <2>1, <2>2, <2>3, Unlinked
  <1>5. Listed' = Listed \ {s} /\ started' \subseteq Listed'
    BY <1>1, <1>2, <1>4 DEF Listed
  <1>6. /\ \A x \in Buttons \cup {NULL} : Reach(next, x) \ {s} \subseteq Reach(next', x)
        /\ \A c \in Buttons : next'[c] \in Reach(next, next[c]) \cup {NULL}
    BY <1>1, <1>3, Bypass
  <1>7. Acyclic'
    BY <1>1, <1>3, <1>6, Shortcut DEF Acyclic
  <1>8. MainInv'
    <2>1. main.op = "search" => (main.h \in Listed' => main.h \in Reach(next', main.at))
      BY <1>1, <1>5, <1>6 DEF MainInv
    <2>2. main.op = "head" => Listed' \subseteq Reach(next', next'[main.h])
      <3> SUFFICES ASSUME main.op = "head" PROVE Listed' \subseteq Reach(next', next'[main.h])
        OBVIOUS
      <3>1. main.h \in Buttons \ Listed /\ Listed \subseteq Reach(next, next[main.h])
        BY <1>1 DEF MainInv
      <3>2. next'[main.h] = next[main.h] /\ next[main.h] \in Buttons \cup {NULL}
        BY <1>1, <1>3, <3>1 DEF Links
      <3> QED BY <1>5, <1>6, <3>1, <3>2
    <2> QED BY <1>1, <1>2, <1>5, <2>1, <2>2 DEF MainInv
  <1>9. AloneInv'
    <2> SUFFICES ASSUME ~crossed' PROVE Alone'
      BY DEF AloneInv
    <2>1. ~crossed /\ main = Rest /\ main' = Rest
      OBVIOUS
    <2>2. Listed = started
      BY <2>1 DEF AloneInv, Alone, Rest
    <2> QED BY <1>2, <1>5, <2>1, <2>2 DEF Alone, Rest
  <1>10. MainType'
    BY <1>1 DEF MainType
  <1>11. isr' \in Buttons \cup {NULL} /\ done' \subseteq Buttons => ListType'
    BY <1>1, <1>2, <1>3, <1>4 DEF ListType
  <1> QED BY <1>2, <1>3, <1>4, <1>5, <1>7, <1>8, <1>9, <1>10, <1>11 DEF Listed

\* A button handled, and perhaps one stopped: what the walk still has before
\* it are the buttons it had, without these two.
LEMMA HandledStep ==
    ASSUME ListInv, AloneInv, NEW b \in Buttons, Handled(b)
    PROVE  /\ ListInv' /\ AloneInv' /\ b \notin done
           /\ isr' = NULL => started' \subseteq done \cup {b}
  <1> USE DEF Handled
  <1>1. /\ next \in Links /\ started \subseteq Listed /\ Listed \in SUBSET Buttons
        /\ isr = b /\ b # NULL /\ b \in Listed /\ Listed \subseteq done \cup Reach(next, b)
        /\ \A d \in done : d \notin Reach(next, b)
        /\ started \subseteq Buttons /\ done \subseteq Buttons
    BY ListFacts, ButtonAssumption DEF ListInv, ListType, WalkInv
  <1>2. /\ Reach(next, b) = {b} \cup Reach(next, next[b]) /\ b \notin Reach(next, next[b])
        /\ next[b] \in Listed \cup {NULL}
    BY <1>1, ReachStep, ListFacts DEF Acyclic, ListInv, Closed
  <1>3. b \notin done
    BY <1>1, <1>2
  <1>4. CASE UNCHANGED <<list, started, crossed>>
    <2>1. /\ head' = head /\ next' = next /\ started' = started /\ Listed' = Listed /\ isr' = next[b]
          /\ done' = IF next[b] = NULL THEN {} ELSE done \cup {b}
          /\ crossed' = crossed /\ main' = main
      BY <1>4 DEF list, Listed
    <2>2. Acyclic' /\ MainInv' /\ MainType' /\ AloneInv'
      BY <2>1 DEF ListInv, Acyclic, MainInv, MainType, Rest, AloneInv, Alone
    <2>3. WalkInv'
      <3>1. CASE next[b] = NULL
        BY <2>1, <3>1 DEF WalkInv
      <3>2. CASE next[b] # NULL
        BY <1>1, <1>2, <2>1, <3>2 DEF WalkInv
      <3> QED BY <3>1, <3>2
    <2>4. ListType'
      BY <1>1, <1>2, <2>1 DEF ListType, ListInv
    <2>5. isr' = NULL => started' \subseteq done \cup {b}
      BY <1>1, <1>2, <2>1, ReachNull
    <2> QED BY <1>3, <2>2, <2>3, <2>4, <2>5 DEF ListInv
  <1>5. CASE (\E s \in Buttons : Stop(s)) /\ crossed' = (crossed \/ main # Rest)
    <2>1. PICK s \in Buttons : Stop(s)
      BY <1>5
    <2>2. /\ isr' \in Buttons \cup {NULL} /\ done' \subseteq Buttons => ListType'
          /\ MainType' /\ Acyclic' /\ MainInv' /\ AloneInv' /\ next' \in Links
          /\ Listed' = Listed \ {s} /\ started' = started \ {s} /\ s \in Listed
          /\ \A x \in Listed \ {s} : Reach(next', x) = Reach(next, x) \ {s}
          /\ next'[s] = next[s] /\ Reach(next', next[s]) = Reach(next, next[s])
      BY <1>5, <2>1, Stopped
    <2>3. Reach(next', next'[b]) = Reach(next, b) \ {b, s} /\ next'[b] \in Listed' \cup {NULL}
      <3>1. next'[b] \in Buttons \cup {NULL}
        BY <2>2 DEF Links
      <3>2. CASE b = s
        <4>1. Reach(next', next'[b]) = Reach(next, next[b])
          BY <2>2, <3>2
        <4>2. next'[b] = next[b] /\ next[b] # b
          BY <1>1, <1>2, <2>2, <3>2, ReachSelf
        <4> QED BY <1>2, <2>2, <3>2, <4>1, <4>2
      <3>3. CASE b # s
        <4>1. b \in Listed' /\ Reach(next', b) = Reach(next, b) \ {s} /\ b \notin Reach(next', next'[b])
          BY <1>1, <2>2, <3>3 DEF Acyclic
        <4>2. Reach(next', b) = {b} \cup Reach(next', next'[b])
          BY <2>2, ReachStep
        <4>3. next'[b] \in Reach(next', next'[b]) \cup {NULL}
          BY <2>2, <3>1, ReachSelf
        <4>4. Reach(next', b) \subseteq Listed'
          <5>1. Reach(next, b) \subseteq Listed
            BY <1>1, ListFacts, ReachTrans
          <5> QED BY <2>2, <4>1, <5>1
        <4> QED BY <4>1, <4>2, <4>3, <4>4
      <3> QED BY <3>2, <3>3
    <2>4. WalkInv'
      <3>1. CASE next'[b] = NULL
        BY <3>1 DEF WalkInv
      <3>2. CASE next'[b] # NULL
        BY <1>1, <2>2, <2>3, <3>2 DEF WalkInv
      <3> QED BY <3>1, <3>2
    <2>5. ListType'
      BY <1>1, <2>2, <2>3
    <2>6. isr' = NULL => started' \subseteq done \cup {b}
      <3> SUFFICES ASSUME isr' = NULL PROVE started' \subseteq done \cup {b}
        OBVIOUS
      <3>1. Reach(next', next'[b]) = {}
        BY ReachNull
      <3> QED BY <1>1, <2>2, <2>3, <3>1
    <2> QED BY <1>3, <2>2, <2>4, <2>5, <2>6 DEF ListInv
  <1> QED BY <1>4, <1>5

LEMMA NextList ==
    ASSUME ListInv, AloneInv, [Next]_vars PROVE ListInv' /\ AloneInv'
  <1>1. ASSUME NEW b \in Buttons, button_start(b) \/ button_stop(b) \/ button_init(b)
        PROVE  ListInv' /\ AloneInv'
    BY <1>1, StartButton, StopButton, InitButton
  <1>2. CASE StartSearch \/ StartLink \/ StartHead \/ StopStep \/ button_ticks
    BY <1>2, SearchStep, LinkStep, HeadStep, StopLoop, TicksStep
  <1>3. ASSUME NEW b \in Buttons, button_handler(b) PROVE ListInv' /\ AloneInv'
    BY <1>3, HandlerHandles, HandledStep
  <1>4. ASSUME NEW b \in Buttons, Finger(b) PROVE ListInv' /\ AloneInv'
    BY <1>4, ListStutter DEF Finger, list
  <1>5. CASE UNCHANGED vars
    BY <1>5, ListStutter DEF vars
  <1> QED BY <1>1, <1>2, <1>3, <1>4, <1>5 DEF Next

\* Where the main program is in button_start or button_stop, where the walk of
\* button_ticks is, and the links between the buttons fit together.
THEOREM ListInvariant == Spec => [](ListInv /\ AloneInv)
  <1>1. ListInv /\ AloneInv /\ [Next]_vars => ListInv' /\ AloneInv'
    BY NextList
  <1> QED BY <1>1, InitList, PTL DEF Spec

\* The list does not run in a circle and holds every started button, also when a callback
\* stops a button inside button_start or button_stop; as long as none does, it holds besides
\* them only the one that the main program is adding or removing.
THEOREM ListKept == Spec => []ListRight
  <1>1. ASSUME ListInv, AloneInv PROVE ListRight
    <2>1. Listed \in SUBSET Buttons /\ started \subseteq Listed
      BY <1>1, ListFacts
    <2>2. \A b \in Listed : b \notin Reach(next, next[b])
      BY <1>1, <2>1 DEF ListInv, Acyclic
    <2>3. ~crossed => Listed \subseteq started \cup {main.h}
      BY <1>1 DEF AloneInv, Alone, Rest
    <2> QED BY <2>1, <2>2, <2>3 DEF ListRight
  <1> QED BY <1>1, ListInvariant, PTL

\* A call of button_ticks handles every started button once, wherever in
\* button_start or button_stop it came and whatever a callback stopped.
THEOREM TickHandlesAll == Spec => EveryTick
  <1> DEFINE Step == /\ isr # NULL => isr \notin done
                     /\ (isr # NULL /\ isr' = NULL) => started' \subseteq done \cup {isr}
  <1>1. ASSUME ListInv, AloneInv, [Next]_vars PROVE [Step]_vars
    <2>1. CASE isr = NULL
      BY <2>1
    <2>2. ASSUME isr # NULL, NEW b \in Buttons, button_handler(b) PROVE Step
      <3>1. Handled(b)
        BY <2>2, HandlerHandles
      <3>2. isr = b
        BY <3>1 DEF Handled
      <3> QED BY <1>1, <3>1, <3>2, HandledStep
    <2>3. ASSUME isr # NULL, Next PROVE \E b \in Buttons : button_handler(b)
      BY <2>3 DEF Next, button_start, button_stop, button_init, StartSearch, StartLink, StartHead,
         StopStep, button_ticks, Finger
    <2> QED BY <1>1, <2>1, <2>2, <2>3
  <1>2. ListInv /\ AloneInv /\ [Next]_vars => [Step]_vars
    BY <1>1
  <1> QED BY <1>2, ListInvariant, PTL DEF Spec, EveryTick

-----------------------------------------------------------------------------
(* Sequences of events.                                                    *)

\* Two sequences of events one after the other, and the first part of them.
LEMMA Joined ==
    ASSUME NEW s \in Seq(Events), NEW t \in Seq(Events)
    PROVE  /\ s \o t \in Seq(Events) /\ Len(s \o t) = Len(s) + Len(t) /\ Len(s) <= Len(s \o t)
           /\ \A i \in 1 .. Len(s) + Len(t) :
                 (s \o t)[i] = IF i <= Len(s) THEN s[i] ELSE t[i - Len(s)]
           /\ SubSeq(s \o t, 1, Len(s)) = s
           /\ s \o << >> = s /\ << >> \o s = s
  <1>1. /\ s \o t \in Seq(Events) /\ Len(s \o t) = Len(s) + Len(t)
        /\ \A i \in 1 .. Len(s) + Len(t) :
              (s \o t)[i] = IF i <= Len(s) THEN s[i] ELSE t[i - Len(s)]
    BY ConcatProperties
  <1>2. Len(s) \in Nat /\ Len(t) \in Nat
    OBVIOUS
  <1>3. SubSeq(s \o t, 1, Len(s)) = s
    <2>1. 1 \in Int /\ Len(s) \in Int /\ \A i \in 1 .. Len(s) : (s \o t)[i] \in Events
      BY <1>1, <1>2
    <2>2. /\ SubSeq(s \o t, 1, Len(s)) \in Seq(Events)
          /\ Len(SubSeq(s \o t, 1, Len(s))) = Len(s)
          /\ \A i \in 1 .. Len(s) : SubSeq(s \o t, 1, Len(s))[i] = (s \o t)[i]
      BY <1>1, <1>2
    <2>3. \A i \in 1 .. Len(s) : SubSeq(s \o t, 1, Len(s))[i] = s[i]
      BY <1>1, <1>2, <2>2
    <2> QED BY <2>2, <2>3, SeqEqual
  <1>4. s \o << >> = s /\ << >> \o s = s
    BY ConcatEmptySeq
  <1> QED BY <1>1, <1>2, <1>3, <1>4

\* Sequences with the same events in the same places are the same.
LEMMA SameEvents ==
    ASSUME NEW s \in Seq(Events), NEW t \in Seq(Events), Len(s) = Len(t),
           \A i \in 1 .. Len(s) : s[i] = t[i]
    PROVE  s = t
  BY SeqEqual

\* Short sequences joined.
LEMMA ShortOnes ==
    ASSUME NEW a \in Events, NEW b \in Events, NEW c \in Events
    PROVE  /\ <<a>> \in Seq(Events) /\ <<a, b>> \in Seq(Events) /\ <<a, b, c>> \in Seq(Events)
           /\ <<a>> \o <<b>> = <<a, b>> /\ <<a, b>> \o <<c>> = <<a, b, c>>
  <1>1. /\ <<a>> \in Seq(Events) /\ <<a, b>> \in Seq(Events) /\ <<a, b, c>> \in Seq(Events)
        /\ <<b>> \in Seq(Events) /\ <<c>> \in Seq(Events)
    OBVIOUS
  <1>2. <<a>> \o <<b>> = <<a, b>>
    <2>1. /\ <<a>> \o <<b>> \in Seq(Events) /\ Len(<<a>> \o <<b>>) = 2
          /\ \A i \in 1 .. 2 : (<<a>> \o <<b>>)[i] = IF i <= 1 THEN <<a>>[i] ELSE <<b>>[i - 1]
      BY <1>1, Joined
    <2>2. \A i \in 1 .. 2 : (<<a>> \o <<b>>)[i] = <<a, b>>[i]
      BY <2>1
    <2> QED BY <1>1, <2>1, <2>2, SameEvents
  <1>3. <<a, b>> \o <<c>> = <<a, b, c>>
    <2>1. /\ <<a, b>> \o <<c>> \in Seq(Events) /\ Len(<<a, b>> \o <<c>>) = 3
          /\ \A i \in 1 .. 3 : (<<a, b>> \o <<c>>)[i] = IF i <= 2 THEN <<a, b>>[i] ELSE <<c>>[i - 2]
      BY <1>1, Joined
    <2>2. \A i \in 1 .. 3 : (<<a, b>> \o <<c>>)[i] = <<a, b, c>>[i]
      BY <2>1
    <2> QED BY <1>1, <2>1, <2>2, SameEvents
  <1> QED BY <1>1, <1>2, <1>3

\* Clicks(n) ends with a release, and one more press and release make the next.
LEMMA ClicksAre ==
    ASSUME NEW n \in Nat \ {0}
    PROVE  /\ Clicks(n) \in Seq(Events) /\ Len(Clicks(n)) = 3 * n - 1
           /\ Clicks(n)[3 * n - 1] = "PRESS_UP"
  <1>1. Clicks(n) \in [1 .. 3 * n - 1 -> Events] /\ 3 * n - 1 \in Nat
    BY DEF Clicks, Events
  <1>2. Clicks(n) \in Seq(Events) /\ Len(Clicks(n)) = 3 * n - 1
    BY <1>1
  <1>3. 3 * n - 1 \in 1 .. 3 * n - 1 /\ (3 * n - 1) % 3 = 2
    OBVIOUS
  <1>4. Clicks(n)[3 * n - 1] = "PRESS_UP"
    BY <1>3 DEF Clicks
  <1> QED BY <1>2, <1>4

LEMMA ClicksOne == Clicks(1) = <<"PRESS_DOWN", "PRESS_UP">>
  <1>1. Clicks(1) \in Seq(Events) /\ Len(Clicks(1)) = 2
    <2>1. \A n \in Nat \ {0} : Clicks(n) \in Seq(Events) /\ Len(Clicks(n)) = 3 * n - 1
      BY ClicksAre
    <2>2. 1 \in Nat \ {0} /\ 3 * 1 - 1 = 2
      OBVIOUS
    <2> QED BY <2>1, <2>2
  <1>2. <<"PRESS_DOWN", "PRESS_UP">> \in Seq(Events)
    <2>1. "PRESS_DOWN" \in Events /\ "PRESS_UP" \in Events
      BY DEF Events
    <2> QED BY <2>1
  <1>3. \A i \in 1 .. 2 : Clicks(1)[i] = <<"PRESS_DOWN", "PRESS_UP">>[i]
    <2>1. Clicks(1)[1] = "PRESS_DOWN"
      BY DEF Clicks
    <2>2. Clicks(1)[2] = "PRESS_UP"
      BY DEF Clicks
    <2>3. \A i \in 1 .. 2 : i = 1 \/ i = 2
      OBVIOUS
    <2> QED BY <2>1, <2>2, <2>3
  <1> QED BY <1>1, <1>2, <1>3, SameEvents

LEMMA ClicksMore ==
    ASSUME NEW n \in Nat \ {0}
    PROVE  /\ PressedAgain(n) \in Seq(Events) /\ Len(PressedAgain(n)) = 3 * n + 1
           /\ PressedAgain(n)[3 * n + 1] = "PRESS_REPEAT"
           /\ PressedAgain(n) \o <<"PRESS_UP">> = Clicks(n + 1)
  <1> DEFINE p == <<"PRESS_DOWN", "PRESS_REPEAT">>
             u == <<"PRESS_UP">>
             s == PressedAgain(n)
  <1>1. Clicks(n) \in Seq(Events) /\ Len(Clicks(n)) = 3 * n - 1
    BY ClicksAre
  <1>2. p \in Seq(Events) /\ Len(p) = 2 /\ u \in Seq(Events) /\ Len(u) = 1 /\ u[1] = "PRESS_UP"
        /\ p[1] = "PRESS_DOWN" /\ p[2] = "PRESS_REPEAT"
    <2>1. "PRESS_DOWN" \in Events /\ "PRESS_UP" \in Events /\ "PRESS_REPEAT" \in Events
      BY DEF Events
    <2> QED BY <2>1
  <1> HIDE DEF p, u
  <1>3. s = Clicks(n) \o p
    BY DEF PressedAgain, p
  <1> HIDE DEF s
  <1>4. /\ s \in Seq(Events) /\ Len(s) = 3 * n + 1
        /\ \A i \in 1 .. 3 * n + 1 : s[i] = IF i <= 3 * n - 1 THEN Clicks(n)[i] ELSE p[i - (3 * n - 1)]
    <2>1. /\ s \in Seq(Events) /\ Len(s) = Len(Clicks(n)) + Len(p)
          /\ \A i \in 1 .. Len(Clicks(n)) + Len(p) : s[i] =
                IF i <= Len(Clicks(n)) THEN Clicks(n)[i] ELSE p[i - Len(Clicks(n))]
      <3> DEFINE c == Clicks(n)
      <3>1. c \in Seq(Events) /\ s = c \o p
        BY <1>1, <1>3
      <3> HIDE DEF c
      <3>2. /\ c \o p \in Seq(Events) /\ Len(c \o p) = Len(c) + Len(p)
            /\ \A i \in 1 .. Len(c) + Len(p) :
                  (c \o p)[i] = IF i <= Len(c) THEN c[i] ELSE p[i - Len(c)]
        BY <1>2, <3>1, Joined
      <3>3. /\ s \in Seq(Events) /\ Len(s) = Len(c) + Len(p)
            /\ \A i \in 1 .. Len(c) + Len(p) : s[i] = IF i <= Len(c) THEN c[i] ELSE p[i - Len(c)]
        BY <3>1, <3>2
      <3> QED BY <3>3 DEF c
    <2>2. Len(Clicks(n)) + Len(p) = 3 * n + 1
      BY <1>1, <1>2
    <2> QED BY <1>1, <2>1, <2>2
  <1>5. /\ s \o u \in Seq(Events) /\ Len(s \o u) = 3 * n + 2
        /\ \A i \in 1 .. 3 * n + 2 : (s \o u)[i] = IF i <= 3 * n + 1 THEN s[i] ELSE u[i - (3 * n + 1)]
    <2>1. /\ s \o u \in Seq(Events) /\ Len(s \o u) = Len(s) + Len(u)
          /\ \A i \in 1 .. Len(s) + Len(u) : (s \o u)[i] =
                IF i <= Len(s) THEN s[i] ELSE u[i - Len(s)]
      BY <1>2, <1>4, Joined
    <2>2. Len(s) + Len(u) = 3 * n + 2
      BY <1>2, <1>4
    <2> QED BY <1>4, <2>1, <2>2
  <1>6. Clicks(n + 1) \in Seq(Events) /\ Len(Clicks(n + 1)) = 3 * n + 2
    BY ClicksAre
  <1>7. ASSUME NEW i \in 1 .. 3 * n + 2 PROVE (s \o u)[i] = Clicks(n + 1)[i]
    <2>0. /\ i \in 1 .. 3 * (n + 1) - 1 /\ i \in Nat
          /\ 3 * n + 1 \in 1 .. 3 * n + 1 /\ 3 * n \in 1 .. 3 * n + 1
      OBVIOUS
    <2>1. CASE i <= 3 * n - 1
      <3>1. (s \o u)[i] = Clicks(n)[i] /\ i \in 1 .. 3 * n - 1
        BY <1>4, <1>5, <2>1
      <3> QED BY <2>0, <3>1 DEF Clicks
    <2>2. CASE i = 3 * n
      <3>1. (s \o u)[i] = p[1]
        BY <1>4, <1>5, <2>0, <2>2
      <3>2. i % 3 = 0
        BY <2>2
      <3> QED BY <1>2, <2>0, <3>1, <3>2 DEF Clicks
    <2>3. CASE i = 3 * n + 1
      <3>1. (s \o u)[i] = p[2]
        BY <1>4, <1>5, <2>0, <2>3
      <3>2. i % 3 = 1 /\ i # 1
        BY <2>3
      <3> QED BY <1>2, <2>0, <3>1, <3>2 DEF Clicks
    <2>4. CASE i = 3 * n + 2
      <3>1. (s \o u)[i] = u[1]
        BY <1>4, <1>5, <2>0, <2>4
      <3>2. i % 3 = 2
        BY <2>4
      <3> QED BY <1>2, <2>0, <3>1, <3>2 DEF Clicks
    <2>5. i <= 3 * n - 1 \/ i = 3 * n \/ i = 3 * n + 1 \/ i = 3 * n + 2
      OBVIOUS
    <2> QED BY <2>1, <2>2, <2>3, <2>4, <2>5
  <1>8. s \o u = Clicks(n + 1)
    BY <1>5, <1>6, <1>7, SameEvents
  <1>9. s[3 * n + 1] = "PRESS_REPEAT"
    <2>1. 3 * n + 1 \in 1 .. 3 * n + 1 /\ ~(3 * n + 1 <= 3 * n - 1) /\ 3 * n + 1 - (3 * n - 1) = 2
      OBVIOUS
    <2> QED BY <1>2, <1>4, <2>1
  <1> QED BY <1>4, <1>8, <1>9 DEF s, u

\* What is noted of a callback after the callbacks t.
LEMMA NotedIs ==
    ASSUME NEW t \in Seq(Events), NEW e \in Seq(Events)
    PROVE  /\ e = << >> => Noted(t, e) = t
           /\ t = << >> => Noted(t, e) = e
           /\ e # << >> /\ t # << >> /\ t[Len(t)] # e[1] => Noted(t, e) = t \o e
           /\ e # << >> /\ t # << >> /\ t[Len(t)] = e[1] => Noted(t, e) = t
  <1>1. t \o << >> = t /\ << >> \o e = e
    BY ConcatEmptySeq
  <1> QED BY <1>1 DEF Noted

\* The callbacks one after the other.
LEMMA Gesture ==
    /\ Noted(<< >>, Down) = Down
    /\ Noted(Down, <<"PRESS_UP">>) = Clicks(1)
    /\ Noted(Down, <<"LONG_PRESS_START">>) = DownLong
    /\ Noted(DownLong, <<"LONG_PRESS_START">>) = DownLong
    /\ Noted(DownLong, <<"PRESS_UP">>) = <<"PRESS_DOWN", "LONG_PRESS_START", "PRESS_UP">>
    /\ Noted(DownLong, <<"LONG_PRESS_HOLD">>) = DownLongHold
    /\ Noted(DownLongHold, <<"LONG_PRESS_HOLD">>) = DownLongHold
    /\ Noted(DownLongHold, <<"PRESS_UP">>) =
          <<"PRESS_DOWN", "LONG_PRESS_START", "LONG_PRESS_HOLD", "PRESS_UP">>
  <1> DEFINE d == "PRESS_DOWN"
             u == "PRESS_UP"
             l == "LONG_PRESS_START"
             h == "LONG_PRESS_HOLD"
  <1>1. /\ d \in Events /\ u \in Events /\ l \in Events /\ h \in Events
        /\ d # u /\ d # l /\ l # u /\ l # h /\ h # u
    BY DEF Events
  <1> HIDE DEF d, u, l, h
  <1>2. << >> \in Seq(Events) /\ <<d>> \in Seq(Events) /\ <<u>> \in Seq(Events) /\ <<l>> \in Seq(Events)
        /\ <<h>> \in Seq(Events) /\ <<d, l>> \in Seq(Events) /\ <<d, l, h>> \in Seq(Events)
    BY <1>1
  <1>3. /\ <<d>> # << >> /\ <<u>> # << >> /\ <<l>> # << >> /\ <<h>> # << >> /\ <<d, l>> # << >>
        /\ <<d, l, h>> # << >>
        /\ <<d>>[1] = d /\ <<u>>[1] = u /\ <<l>>[1] = l /\ <<h>>[1] = h
        /\ <<d>>[Len(<<d>>)] = d /\ <<d, l>>[Len(<<d, l>>)] = l /\ <<d, l, h>>[Len(<<d, l, h>>)] = h
    BY <1>1
  <1>4. /\ <<d>> \o <<u>> = <<d, u>> /\ <<d>> \o <<l>> = <<d, l>> /\ <<d, l>> \o <<u>> = <<d, l, u>>
        /\ <<d, l>> \o <<h>> = <<d, l, h>> /\ <<d, l, h>> \o <<u>> = <<d, l, h, u>>
    <2>1. \A a, b \in Events : <<a>> \o <<b>> = <<a, b>>
      BY ShortOnes
    <2>2. \A a, b, c \in Events : <<a, b>> \o <<c>> = <<a, b, c>>
      BY ShortOnes
    <2>3. ASSUME NEW a \in Events, NEW b \in Events, NEW c \in Events, NEW e \in Events
          PROVE  <<a, b, c>> \o <<e>> = <<a, b, c, e>>
      <3>1. <<a, b, c>> \in Seq(Events) /\ <<e>> \in Seq(Events) /\ <<a, b, c, e>> \in Seq(Events)
            /\ Len(<<a, b, c>>) = 3 /\ Len(<<e>>) = 1
        BY <2>3
      <3>2. /\ <<a, b, c>> \o <<e>> \in Seq(Events) /\ Len(<<a, b, c>> \o <<e>>) = 4
            /\ \A i \in 1 .. 4 : (<<a, b, c>> \o <<e>>)[i] =
                  IF i <= 3 THEN <<a, b, c>>[i] ELSE <<e>>[i - 3]
        BY <3>1, Joined
      <3>3. \A i \in 1 .. 4 : (<<a, b, c>> \o <<e>>)[i] = <<a, b, c, e>>[i]
        BY <3>2
      <3> QED BY <3>1, <3>2, <3>3, SameEvents
    <2> QED BY <1>1, <2>1, <2>2, <2>3
  <1>5. Noted(<< >>, <<d>>) = <<d>>
    BY <1>2, NotedIs
  <1>6. Noted(<<d>>, <<u>>) = <<d, u>> /\ Noted(<<d>>, <<l>>) = <<d, l>>
    BY <1>1, <1>2, <1>3, <1>4, NotedIs
  <1>7. /\ Noted(<<d, l>>, <<l>>) = <<d, l>> /\ Noted(<<d, l>>, <<u>>) = <<d, l, u>>
        /\ Noted(<<d, l>>, <<h>>) = <<d, l, h>>
    BY <1>1, <1>2, <1>3, <1>4, NotedIs
  <1>8. Noted(<<d, l, h>>, <<h>>) = <<d, l, h>> /\ Noted(<<d, l, h>>, <<u>>) = <<d, l, h, u>>
    BY <1>1, <1>2, <1>3, <1>4, NotedIs
  <1>9. Clicks(1) = <<d, u>>
    BY ClicksOne DEF d, u
  <1> QED BY <1>5, <1>6, <1>7, <1>8, <1>9 DEF Down, DownLong, DownLongHold, d, u, l, h

LEMMA GestureClicks ==
    ASSUME NEW n \in Nat \ {0}
    PROVE  /\ Noted(Clicks(n), <<"PRESS_DOWN", "PRESS_REPEAT">>) = PressedAgain(n)
           /\ Noted(PressedAgain(n), <<"PRESS_UP">>) = Clicks(n + 1)
           /\ Noted(Clicks(n), <<"SINGLE_CLICK">>) = Clicks(n) \o <<"SINGLE_CLICK">>
           /\ Noted(Clicks(n), <<"DOUBLE_CLICK">>) = Clicks(n) \o <<"DOUBLE_CLICK">>
  <1> DEFINE c == Clicks(n)
             a == PressedAgain(n)
             p == <<"PRESS_DOWN", "PRESS_REPEAT">>
             u == <<"PRESS_UP">>
             s == <<"SINGLE_CLICK">>
             t == <<"DOUBLE_CLICK">>
  <1>1. c \in Seq(Events) /\ c # << >> /\ c[Len(c)] = "PRESS_UP"
    <2>1. c \in Seq(Events) /\ Len(c) = 3 * n - 1 /\ c[3 * n - 1] = "PRESS_UP"
      BY ClicksAre
    <2>2. 3 * n - 1 # 0 /\ Len(<< >>) = 0
      OBVIOUS
    <2> HIDE DEF c
    <2>3. c # << >>
      BY <2>1, <2>2
    <2> QED BY <2>1, <2>3
  <1>2. a \in Seq(Events) /\ a # << >> /\ a[Len(a)] = "PRESS_REPEAT" /\ a \o u = Clicks(n + 1)
    <2>1. /\ a \in Seq(Events) /\ Len(a) = 3 * n + 1 /\ a[3 * n + 1] = "PRESS_REPEAT"
          /\ a \o u = Clicks(n + 1)
      BY ClicksMore
    <2>2. 3 * n + 1 # 0 /\ Len(<< >>) = 0
      OBVIOUS
    <2> HIDE DEF a
    <2>3. a # << >>
      BY <2>1, <2>2
    <2> QED BY <2>1, <2>3
  <1>3. p \in Seq(Events) /\ u \in Seq(Events) /\ s \in Seq(Events) /\ t \in Seq(Events)
    <2>1. "PRESS_DOWN" \in Events /\ "PRESS_REPEAT" \in Events /\ "PRESS_UP" \in Events
          /\ "SINGLE_CLICK" \in Events /\ "DOUBLE_CLICK" \in Events
      BY DEF Events
    <2> QED BY <2>1
  <1>4. /\ p # << >> /\ u # << >> /\ s # << >> /\ t # << >>
        /\ p[1] = "PRESS_DOWN" /\ u[1] = "PRESS_UP" /\ s[1] = "SINGLE_CLICK" /\ t[1] = "DOUBLE_CLICK"
    OBVIOUS
  <1>5. c \o p = a
    BY DEF PressedAgain
  <1> HIDE DEF c, a, p, u, s, t
  <1>6. Noted(c, p) = c \o p /\ Noted(c, s) = c \o s /\ Noted(c, t) = c \o t
    BY <1>1, <1>3, <1>4, NotedIs
  <1>7. Noted(a, u) = a \o u
    BY <1>2, <1>3, <1>4, NotedIs
  <1> QED BY <1>2, <1>5, <1>6, <1>7 DEF c, a, p, u, s, t

-----------------------------------------------------------------------------
(* A call of button_handler.                                               *)

LEMMA ConfType ==
    ASSUME HandleType, NEW b \in Buttons
    PROVE  conf[b].active \in 0 .. 1 /\ conf[b].again \in BOOLEAN
  <1>1. conf[b] \in [ext : BOOLEAN, active : 0 .. 1, again : BOOLEAN, long : 0 .. Wrap - 2]
    BY ButtonAssumption DEF HandleType
  <1> QED BY <1>1

\* One reading of one button.
LEMMA SampleOk ==
    ASSUME HandleType, NEW b \in Buttons, Sample(b)
    PROVE  /\ debounce_cnt' \in [Buttons -> 0 .. CntWrap - 1] /\ button_level' \in [Buttons -> 0 .. 1]
           /\ seen' \in [Buttons -> [level : 0 .. 1, times : 0 .. Debounce]]
           /\ button_level'[b] = Level(b) /\ Level(b) \in 0 .. 1
           /\ \A c \in Buttons \ {b} : button_level'[c] = button_level[c]
  <1> DEFINE tm == IF pin[b] = seen[b].level /\ seen[b].times < Debounce THEN seen[b].times + 1
                   ELSE IF pin[b] = seen[b].level THEN Debounce ELSE 1
             nx == (debounce_cnt[b] + 1) % CntWrap
             ct == IF Changes(b) /\ ~Settled(b) THEN nx ELSE 0
  <1>1. /\ Debounce \in Nat \ {0} /\ CntWrap \in Nat \ {0}
        /\ pin[b] \in 0 .. 1 /\ button_level[b] \in 0 .. 1 /\ debounce_cnt[b] \in 0 .. CntWrap - 1
        /\ seen[b] \in [level : 0 .. 1, times : 0 .. Debounce]
    BY ButtonAssumption DEF HandleType
  <1>2. nx \in 0 .. CntWrap - 1
    <2>1. \A x \in Nat : x % CntWrap \in 0 .. CntWrap - 1
      BY <1>1
    <2> QED BY <1>1, <2>1
  <1>3. /\ button_level' = [button_level EXCEPT ![b] = Level(b)]
        /\ debounce_cnt' = [debounce_cnt EXCEPT ![b] = ct]
        /\ seen' = [seen EXCEPT ![b] = [level |-> pin[b], times |-> tm]]
    BY DEF Sample
  <1> HIDE DEF nx
  <1>4. tm \in 0 .. Debounce /\ ct \in 0 .. CntWrap - 1 /\ Level(b) \in 0 .. 1
    BY <1>1, <1>2 DEF Level
  <1> HIDE DEF tm, ct
  <1> QED BY <1>1, <1>3, <1>4 DEF HandleType

\* As far as it can count: the counter goes on counting, and the level follows the Debounce-th
\* reading.
LEMMA SampleBounce ==
    ASSUME Debounce < CntWrap, HandleType, BounceInv, NEW b \in Buttons, Sample(b)
    PROVE  /\ BounceInv'
           /\ button_level'[b] # button_level[b] => seen'[b].times >= Debounce
           /\ seen'[b].times >= Debounce => button_level'[b] = seen'[b].level
  <1> DEFINE tm == IF pin[b] = seen[b].level /\ seen[b].times < Debounce THEN seen[b].times + 1
                   ELSE IF pin[b] = seen[b].level THEN Debounce ELSE 1
             nx == (debounce_cnt[b] + 1) % CntWrap
             ct == IF Changes(b) /\ ~Settled(b) THEN nx ELSE 0
  <1>1. /\ Debounce \in Nat \ {0} /\ CntWrap \in Nat \ {0}
        /\ pin[b] \in 0 .. 1 /\ button_level[b] \in 0 .. 1
        /\ debounce_cnt[b] \in 0 .. CntWrap - 1
        /\ seen[b] \in [level : 0 .. 1, times : 0 .. Debounce]
    BY ButtonAssumption DEF HandleType
  <1>2. /\ seen[b].level \in 0 .. 1 /\ seen[b].times \in 0 .. Debounce
        /\ IF seen[b].level = button_level[b] THEN debounce_cnt[b] = 0
           ELSE debounce_cnt[b] = seen[b].times /\ seen[b].times < Debounce
    BY <1>1 DEF BounceInv
  <1>3. nx = debounce_cnt[b] + 1
    <2>1. debounce_cnt[b] + 1 \in 0 .. CntWrap - 1
      BY <1>1, <1>2
    <2>2. \A x \in 0 .. CntWrap - 1 : x % CntWrap = x
      BY <1>1
    <2> QED BY <2>1, <2>2
  <1>4. /\ button_level' = [button_level EXCEPT ![b] = Level(b)]
        /\ debounce_cnt' = [debounce_cnt EXCEPT ![b] = ct]
        /\ seen' = [seen EXCEPT ![b] = [level |-> pin[b], times |-> tm]]
    BY DEF Sample
  <1>5. /\ Level(b) = IF pin[b] # button_level[b] /\ nx >= Debounce THEN pin[b] ELSE button_level[b]
        /\ ct = IF pin[b] # button_level[b] /\ ~(nx >= Debounce) THEN nx ELSE 0
    BY DEF Level, Changes, Settled
  <1> HIDE DEF nx, ct
  <1>6. /\ IF pin[b] = Level(b) THEN ct = 0 ELSE ct = tm /\ tm < Debounce
        /\ Level(b) # button_level[b] => Level(b) = pin[b] /\ tm >= Debounce
        /\ tm >= Debounce => Level(b) = pin[b]
    BY <1>1, <1>2, <1>3, <1>5
  <1> HIDE DEF tm
  <1>7. /\ button_level'[b] = Level(b) /\ debounce_cnt'[b] = ct /\ seen'[b].level = pin[b]
        /\ seen'[b].times = tm
        /\ \A c \in Buttons \ {b} : /\ button_level'[c] = button_level[c] /\ seen'[c] = seen[c]
                                    /\ debounce_cnt'[c] = debounce_cnt[c]
    BY <1>4 DEF HandleType
  <1>8. BounceInv'
    <2> SUFFICES ASSUME NEW c \in Buttons
                 PROVE  IF seen'[c].level = button_level'[c] THEN debounce_cnt'[c] = 0
                        ELSE debounce_cnt'[c] = seen'[c].times /\ seen'[c].times < Debounce
      BY DEF BounceInv
    <2>1. CASE c = b
      BY <1>6, <1>7, <2>1
    <2>2. CASE c # b
      BY <1>7, <2>2 DEF BounceInv
    <2> QED BY <2>1, <2>2
  <1> QED BY <1>6, <1>7, <1>8

\* What a handler has to establish for its own button.
HandlerTo(b, to, rp, tr) ==
    /\ to \in {0, 1, 2, 3, 5, 6} /\ rp \in 0 .. MaxClicks
    /\ to \in {1, 3, 5, 6} => Pressed(b)
    /\ to = 2 => ~Pressed(b)
    /\ to = 2 /\ rp = MaxClicks => pin[b] = Released(b)
    /\ tr \in TraceOf(conf[b], to, rp)
    /\ to \in {2, 3, 5} => ~conf[b].again
    /\ to = 6 => conf[b].again
    /\ to \in {1, 6} => rp = 1
    /\ to = 2 => rp >= 1
    /\ to = 3 => rp >= 2

LEMMA HandlerKeeps ==
    ASSUME HandleInv, NEW b \in Buttons, Sample(b), conf' = conf, pin' = pin,
           NEW to, NEW rp, NEW tr \in Seq(Events), HandlerTo(b, to, rp, tr),
           state' = [state EXCEPT ![b] = to], repeat' = [repeat EXCEPT ![b] = rp],
           trace' = [trace EXCEPT ![b] = tr]
    PROVE  Kept'
  <1>1. HandleType /\ Presses /\ LevelInv /\ TraceInv
    BY DEF HandleInv, Kept
  <1>2. /\ button_level'[b] = Level(b) /\ Level(b) \in 0 .. 1
        /\ \A c \in Buttons \ {b} : button_level'[c] = button_level[c]
    BY <1>1, SampleOk
  <1>3. Presses'
    <2>1. MaxClicks \in Nat /\ rp <= MaxClicks
      BY ButtonAssumption DEF HandlerTo
    <2> QED BY <1>1, <2>1 DEF HandleType, Presses
  <1>4. /\ state'[b] = to /\ repeat'[b] = rp /\ trace'[b] = tr
        /\ \A c \in Buttons \ {b} : state'[c] = state[c] /\ repeat'[c] = repeat[c] /\ trace'[c] = trace[c]
    BY <1>1 DEF HandleType
  <1>5. LevelInv'
    <2> SUFFICES ASSUME NEW c \in Buttons
                 PROVE  /\ state'[c] \in {1, 3, 5, 6} => button_level'[c] = conf[c].active
                        /\ state'[c] = 2 => button_level'[c] = 1 - conf[c].active
                        /\ state'[c] = 2 /\ repeat'[c] = MaxClicks => pin[c] = 1 - conf[c].active
      BY DEF LevelInv, Released
    <2>1. CASE c = b
      <3>1. conf[b].active \in 0 .. 1
        BY <1>1, ConfType
      <3> QED BY <1>2, <1>4, <2>1, <3>1 DEF HandlerTo, Pressed, Released
    <2>2. CASE c # b
      BY <1>1, <1>2, <1>4, <2>2 DEF LevelInv, Released
    <2> QED BY <2>1, <2>2
  <1>6. TraceInv'
    <2> SUFFICES ASSUME NEW c \in Buttons
                 PROVE  /\ trace'[c] \in TraceOf(conf[c], state'[c], repeat'[c])
                        /\ state'[c] \in {2, 3, 5} => ~conf[c].again
                        /\ state'[c] = 6 => conf[c].again
                        /\ state'[c] \in {1, 6} => repeat'[c] = 1
                        /\ state'[c] = 2 => repeat'[c] >= 1
                        /\ state'[c] = 3 => repeat'[c] >= 2
      BY DEF TraceInv
    <2>1. CASE c = b
      BY <1>4, <2>1 DEF HandlerTo
    <2>2. CASE c # b
      BY <1>1, <1>4, <2>2 DEF TraceInv
    <2> QED BY <2>1, <2>2
  <1> QED BY <1>3, <1>5, <1>6 DEF Kept

\* The same when the handler ends with Go.
LEMMA GoKeeps ==
    ASSUME HandleInv, NEW b \in Buttons, NEW to, NEW evs \in Seq(Events), Go(b, to, evs),
           NEW rp, repeat' = [repeat EXCEPT ![b] = rp],
           HandlerTo(b, to, rp, Noted(IF state[b] = 0 THEN << >> ELSE trace[b], evs))
    PROVE  Kept'
  <1> DEFINE t == IF state[b] = 0 THEN << >> ELSE trace[b]
             tr == Noted(t, evs)
  <1>1. t \in Seq(Events)
    BY DEF HandleInv, HandleType
  <1> HIDE DEF t
  <1>2. tr \in Seq(Events)
    BY <1>1 DEF Noted
  <1>3. /\ Sample(b) /\ conf' = conf /\ pin' = pin /\ state' = [state EXCEPT ![b] = to]
        /\ trace' = [trace EXCEPT ![b] = tr]
    BY DEF Go, t
  <1>4. HandlerTo(b, to, rp, tr)
    BY DEF t
  <1> HIDE DEF tr
  <1> QED BY <1>2, <1>3, <1>4, HandlerKeeps

\* A handler that leaves the number of presses.
LEMMA SameRepeat ==
    ASSUME HandleInv, NEW b \in Buttons, repeat' = repeat
    PROVE  repeat' = [repeat EXCEPT ![b] = repeat[b]] /\ repeat[b] \in 0 .. MaxClicks
  <1>1. repeat \in [Buttons -> 0 .. RepeatWrap - 1] /\ repeat[b] <= MaxClicks
        /\ MaxClicks \in Nat /\ RepeatWrap \in Nat
    BY ButtonAssumption DEF HandleInv, HandleType, Kept, Presses
  <1> QED BY <1>1

\* What the invariant says of one button.
LEMMA AtButton ==
    ASSUME HandleInv, NEW b \in Buttons
    PROVE  /\ trace[b] \in TraceOf(conf[b], state[b], repeat[b]) /\ trace[b] \in Seq(Events)
           /\ state[b] \in {0, 1, 2, 3, 5, 6} /\ repeat[b] \in 0 .. MaxClicks
           /\ state[b] \in {2, 3, 5} => ~conf[b].again
           /\ state[b] = 6 => conf[b].again
           /\ state[b] \in {1, 6} => repeat[b] = 1
           /\ state[b] = 2 => repeat[b] >= 1
           /\ state[b] = 3 => repeat[b] >= 2
           /\ state[b] \in {1, 3, 5, 6} => button_level[b] = conf[b].active
           /\ state[b] = 2 => button_level[b] = Released(b)
           /\ state[b] = 2 /\ repeat[b] = MaxClicks => pin[b] = Released(b)
           /\ conf[b].active \in 0 .. 1 /\ conf[b].again \in BOOLEAN
           /\ button_level[b] \in 0 .. 1 /\ pin[b] \in 0 .. 1
           /\ MaxClicks \in Nat /\ MaxClicks >= 2 /\ MaxClicks < RepeatWrap
  <1>1. /\ trace[b] \in TraceOf(conf[b], state[b], repeat[b])
        /\ state[b] \in {2, 3, 5} => ~conf[b].again
        /\ state[b] = 6 => conf[b].again
        /\ state[b] \in {1, 6} => repeat[b] = 1
        /\ state[b] = 2 => repeat[b] >= 1
        /\ state[b] = 3 => repeat[b] >= 2
    BY DEF HandleInv, Kept, TraceInv
  <1>2. /\ state[b] \in {1, 3, 5, 6} => button_level[b] = conf[b].active
        /\ state[b] = 2 => button_level[b] = Released(b)
        /\ state[b] = 2 /\ repeat[b] = MaxClicks => pin[b] = Released(b)
    BY DEF HandleInv, Kept, LevelInv
  <1>3. /\ trace[b] \in Seq(Events) /\ state[b] \in {0, 1, 2, 3, 5, 6}
        /\ button_level[b] \in 0 .. 1 /\ pin[b] \in 0 .. 1
    BY DEF HandleInv, HandleType
  <1>4. /\ conf[b].active \in 0 .. 1 /\ conf[b].again \in BOOLEAN
        /\ repeat[b] \in 0 .. RepeatWrap - 1 /\ repeat[b] <= MaxClicks /\ RepeatWrap \in Nat
    BY ConfType, ButtonAssumption DEF HandleInv, HandleType, Kept, Presses
  <1>5. MaxClicks \in Nat /\ MaxClicks >= 2 /\ MaxClicks < RepeatWrap
    BY ButtonAssumption DEF HandleInv, Kept, Presses
  <1> QED BY <1>1, <1>2, <1>3, <1>4, <1>5

\* A handler that calls no callback.
LEMMA NoCallback ==
    ASSUME NEW t \in Seq(Events)
    PROVE  << >> \in Seq(Events) /\ Noted(t, << >>) = t
  <1>1. << >> \in Seq(Events)
    OBVIOUS
  <1> QED BY <1>1, NotedIs

LEMMA CallbackTypes ==
    /\ <<"PRESS_DOWN">> \in Seq(Events) /\ <<"PRESS_UP">> \in Seq(Events)
    /\ <<"PRESS_DOWN", "PRESS_REPEAT">> \in Seq(Events) /\ <<"SINGLE_CLICK">> \in Seq(Events)
    /\ <<"DOUBLE_CLICK">> \in Seq(Events) /\ <<"LONG_PRESS_START">> \in Seq(Events)
    /\ <<"LONG_PRESS_HOLD">> \in Seq(Events) /\ << >> \in Seq(Events)
  <1>1. /\ "PRESS_DOWN" \in Events /\ "PRESS_UP" \in Events /\ "PRESS_REPEAT" \in Events
        /\ "SINGLE_CLICK" \in Events /\ "DOUBLE_CLICK" \in Events
        /\ "LONG_PRESS_START" \in Events /\ "LONG_PRESS_HOLD" \in Events
    BY DEF Events
  <1> QED BY <1>1

LEMMA IdleKeeps ==
    ASSUME HandleInv, NEW b \in Buttons, Idle(b) PROVE Kept'
  <1>1. Sample(b) /\ conf' = conf /\ pin' = pin /\ state[b] = 0
        /\ state' = state /\ repeat' = repeat /\ trace' = trace
    BY DEF Idle
  <1>2. /\ state' = [state EXCEPT ![b] = 0] /\ repeat' = [repeat EXCEPT ![b] = repeat[b]]
        /\ trace' = [trace EXCEPT ![b] = trace[b]]
    BY <1>1 DEF HandleInv, HandleType
  <1>3. HandlerTo(b, 0, repeat[b], trace[b]) /\ trace[b] \in Seq(Events)
    BY <1>1, AtButton DEF HandlerTo
  <1> QED BY <1>1, <1>2, <1>3, HandlerKeeps

LEMMA PressDownKeeps ==
    ASSUME HandleInv, NEW b \in Buttons, PressDown(b) PROVE Kept'
  <1>1. state[b] = 0 /\ Pressed(b) /\ Go(b, 1, Down) /\ repeat' = [repeat EXCEPT ![b] = 1]
    BY DEF PressDown, Down
  <1>2. 1 \in 0 .. MaxClicks
    BY ButtonAssumption
  <1>3. Noted(<< >>, Down) = Down /\ Down \in Seq(Events)
    BY Gesture, CallbackTypes DEF Down
  <1>4. HandlerTo(b, 1, 1, Noted(IF state[b] = 0 THEN << >> ELSE trace[b], Down))
    BY <1>1, <1>2, <1>3 DEF HandlerTo, TraceOf
  <1> QED BY <1>1, <1>3, <1>4, GoKeeps

LEMMA PressUpKeeps ==
    ASSUME HandleInv, NEW b \in Buttons, PressUp(b) PROVE Kept'
  <1> DEFINE to == IF conf[b].again THEN 0 ELSE 2
             evs == <<"PRESS_UP">>
             tr == Noted(trace[b], evs)
  <1>1. state[b] = 1 /\ ~Pressed(b) /\ Go(b, to, evs) /\ repeat' = repeat
    BY DEF PressUp
  <1>2. /\ trace[b] \in (IF conf[b].again THEN {Down, DownLong} ELSE {Down})
        /\ repeat[b] = 1 /\ repeat[b] \in 0 .. MaxClicks /\ MaxClicks >= 2
        /\ repeat' = [repeat EXCEPT ![b] = repeat[b]] /\ conf[b].again \in BOOLEAN
    <2>1. trace[b] \in TraceOf(conf[b], 1, repeat[b])
      BY <1>1, AtButton
    <2>2. trace[b] \in (IF conf[b].again THEN {Down, DownLong} ELSE {Down})
      BY <2>1 DEF TraceOf
    <2> QED BY <1>1, <2>1, <2>2, AtButton, SameRepeat
  <1>3. IF conf[b].again THEN tr \in Gestures(conf[b]) ELSE tr = Clicks(1)
    BY <1>2, Gesture DEF Gestures
  <1>4. HandlerTo(b, to, repeat[b], tr)
    BY <1>1, <1>2, <1>3 DEF HandlerTo, TraceOf
  <1>5. HandlerTo(b, to, repeat[b], Noted(IF state[b] = 0 THEN << >> ELSE trace[b], evs))
    BY <1>1, <1>4
  <1>6. evs \in Seq(Events)
    BY CallbackTypes
  <1> HIDE DEF to, evs, tr
  <1> QED BY <1>1, <1>2, <1>5, <1>6, GoKeeps

LEMMA LongPressKeeps ==
    ASSUME HandleInv, NEW b \in Buttons, LongPress(b) PROVE Kept'
  <1> DEFINE evs == <<"LONG_PRESS_START">>
             to == IF conf[b].again THEN 6 ELSE 5
             none == << >>
  <1>1. state[b] = 1 /\ Pressed(b) /\ repeat' = repeat /\ (Go(b, to, evs) \/ Go(b, 1, none))
    BY DEF LongPress
  <1>2. /\ trace[b] \in (IF conf[b].again THEN {Down, DownLong} ELSE {Down})
        /\ trace[b] \in TraceOf(conf[b], 1, 1) /\ trace[b] \in Seq(Events)
        /\ repeat[b] = 1 /\ repeat[b] \in 0 .. MaxClicks /\ MaxClicks >= 2
        /\ repeat' = [repeat EXCEPT ![b] = repeat[b]] /\ conf[b].again \in BOOLEAN
    <2>1. trace[b] \in TraceOf(conf[b], 1, repeat[b])
      BY <1>1, AtButton
    <2>2. trace[b] \in (IF conf[b].again THEN {Down, DownLong} ELSE {Down})
      BY <2>1 DEF TraceOf
    <2> QED BY <1>1, <2>1, <2>2, AtButton, SameRepeat
  <1>3. CASE Go(b, to, evs)
    <2>1. Noted(trace[b], evs) = DownLong /\ evs \in Seq(Events)
      BY <1>2, Gesture, CallbackTypes
    <2>2. HandlerTo(b, to, repeat[b], Noted(trace[b], evs))
      BY <1>1, <1>2, <2>1 DEF HandlerTo, TraceOf
    <2>3. HandlerTo(b, to, repeat[b], Noted(IF state[b] = 0 THEN << >> ELSE trace[b], evs))
      BY <1>1, <2>2
    <2> HIDE DEF to, evs
    <2> QED BY <1>2, <1>3, <2>1, <2>3, GoKeeps
  <1>4. CASE Go(b, 1, none)
    <2>1. Noted(trace[b], none) = trace[b] /\ none \in Seq(Events)
      BY <1>2, NoCallback
    <2>2. HandlerTo(b, 1, repeat[b], Noted(trace[b], none))
      BY <1>1, <1>2, <2>1 DEF HandlerTo
    <2>3. HandlerTo(b, 1, repeat[b], Noted(IF state[b] = 0 THEN << >> ELSE trace[b], none))
      BY <1>1, <2>2
    <2> HIDE DEF none
    <2> QED BY <1>2, <1>4, <2>1, <2>3, GoKeeps
  <1> QED BY <1>1, <1>3, <1>4

LEMMA PressAgainKeeps ==
    ASSUME HandleInv, NEW b \in Buttons, PressAgain(b) PROVE Kept'
  <1> DEFINE evs == <<"PRESS_DOWN", "PRESS_REPEAT">>
             rep == repeat[b]
             rp == (rep + 1) % RepeatWrap
  <1>1. state[b] = 2 /\ Pressed(b) /\ Go(b, 3, evs) /\ repeat' = [repeat EXCEPT ![b] = rp]
    BY DEF PressAgain
  <1>2. /\ trace[b] \in TraceOf(conf[b], 2, rep) /\ rep \in 0 .. MaxClicks /\ rep >= 1
        /\ ~conf[b].again /\ button_level[b] = Released(b)
        /\ rep = MaxClicks => pin[b] = Released(b)
        /\ conf[b].active \in 0 .. 1 /\ MaxClicks \in Nat /\ MaxClicks < RepeatWrap
    BY <1>1, AtButton
  <1>3. Level(b) = conf[b].active /\ Level(b) \in {pin[b], button_level[b]}
    BY <1>1 DEF Pressed, Level
  <1>4. rep # MaxClicks
    BY <1>2, <1>3 DEF Released
  <1> HIDE DEF rep
  <1>5. rp = rep + 1 /\ rp \in 0 .. MaxClicks /\ rp >= 2 /\ rp - 1 = rep
    <2>1. RepeatWrap \in Nat \ {0} /\ rep + 1 \in 0 .. RepeatWrap - 1
      BY <1>2, <1>4, ButtonAssumption
    <2>2. \A x \in 0 .. RepeatWrap - 1 : x % RepeatWrap = x
      BY <2>1
    <2>3. rp = rep + 1
      BY <2>1, <2>2
    <2> QED BY <1>2, <1>4, <2>3
  <1>6. trace[b] = Clicks(rep)
    BY <1>2 DEF TraceOf
  <1>7. Noted(trace[b], evs) = PressedAgain(rp - 1)
    <2>1. rep \in Nat \ {0}
      BY <1>2
    <2>2. Noted(Clicks(rep), <<"PRESS_DOWN", "PRESS_REPEAT">>) = PressedAgain(rep)
      BY <2>1, GestureClicks
    <2> QED BY <1>5, <1>6, <2>2
  <1> HIDE DEF evs, rp
  <1>8. HandlerTo(b, 3, rp, Noted(trace[b], evs))
    BY <1>1, <1>2, <1>5, <1>7 DEF HandlerTo, TraceOf
  <1>9. HandlerTo(b, 3, rp, Noted(IF state[b] = 0 THEN << >> ELSE trace[b], evs))
    BY <1>1, <1>8
  <1>10. evs \in Seq(Events)
    BY CallbackTypes DEF evs
  <1> QED BY <1>1, <1>9, <1>10, GoKeeps

\* Clicks(n) is a whole gesture, from two presses on or with the click reported.
LEMMA WholeClicks ==
    ASSUME NEW c, ~c.again, NEW n \in 1 .. MaxClicks
    PROVE  /\ n >= 2 => Clicks(n) \in Gestures(c)
           /\ n = 1 => Clicks(n) \o <<"SINGLE_CLICK">> \in Gestures(c)
           /\ n = 2 => Clicks(n) \o <<"DOUBLE_CLICK">> \in Gestures(c)
  BY DEF Gestures

LEMMA ClickKeeps ==
    ASSUME HandleInv, NEW b \in Buttons, Click(b) PROVE Kept'
  <1> DEFINE rep == repeat[b]
             evs == CASE rep = 1 -> <<"SINGLE_CLICK">> [] rep = 2 -> <<"DOUBLE_CLICK">> [] OTHER -> << >>
             none == << >>
  <1>1. state[b] = 2 /\ ~Pressed(b) /\ repeat' = repeat /\ (Go(b, 2, none) \/ Go(b, 0, evs))
    BY DEF Click
  <1>2. /\ trace[b] \in TraceOf(conf[b], 2, rep) /\ trace[b] \in Seq(Events)
        /\ rep \in 0 .. MaxClicks /\ rep >= 1 /\ ~conf[b].again
        /\ rep = MaxClicks => pin[b] = Released(b)
        /\ repeat' = [repeat EXCEPT ![b] = rep] /\ MaxClicks \in Nat
    BY <1>1, AtButton, SameRepeat
  <1> HIDE DEF rep
  <1>3. trace[b] = Clicks(rep) /\ rep \in 1 .. MaxClicks /\ rep \in Nat \ {0}
    BY <1>2 DEF TraceOf
  <1>4. CASE Go(b, 2, none)
    <2>1. Noted(trace[b], none) = trace[b] /\ none \in Seq(Events)
      BY <1>2, NoCallback
    <2>2. HandlerTo(b, 2, rep, Noted(trace[b], none))
      BY <1>1, <1>2, <2>1 DEF HandlerTo
    <2>3. HandlerTo(b, 2, rep, Noted(IF state[b] = 0 THEN << >> ELSE trace[b], none))
      BY <1>1, <2>2
    <2> HIDE DEF none
    <2> QED BY <1>2, <1>4, <2>1, <2>3, GoKeeps
  <1>5. CASE Go(b, 0, evs)
    <2>1. evs \in Seq(Events)
      BY CallbackTypes
    <2>2. Noted(trace[b], evs) \in Gestures(conf[b])
      <3>1. CASE rep = 1
        <4>1. evs = <<"SINGLE_CLICK">> /\ Clicks(rep) \o <<"SINGLE_CLICK">> \in Gestures(conf[b])
          BY <1>2, <1>3, <3>1, WholeClicks
        <4>2. Noted(Clicks(rep), <<"SINGLE_CLICK">>) = Clicks(rep) \o <<"SINGLE_CLICK">>
          BY <1>3, GestureClicks
        <4> QED BY <1>3, <4>1, <4>2
      <3>2. CASE rep = 2
        <4>1. evs = <<"DOUBLE_CLICK">> /\ Clicks(rep) \o <<"DOUBLE_CLICK">> \in Gestures(conf[b])
          BY <1>2, <1>3, <3>2, WholeClicks
        <4>2. Noted(Clicks(rep), <<"DOUBLE_CLICK">>) = Clicks(rep) \o <<"DOUBLE_CLICK">>
          BY <1>3, GestureClicks
        <4> QED BY <1>3, <4>1, <4>2
      <3>3. CASE rep > 2
        <4>1. evs = << >> /\ Clicks(rep) \in Gestures(conf[b])
          BY <1>2, <1>3, <3>3, WholeClicks
        <4>2. Noted(trace[b], << >>) = trace[b]
          BY <1>2, NoCallback
        <4> QED BY <1>3, <4>1, <4>2
      <3> QED BY <1>3, <3>1, <3>2, <3>3
    <2> HIDE DEF evs
    <2>3. HandlerTo(b, 0, rep, Noted(trace[b], evs))
      BY <1>1, <1>2, <2>2 DEF HandlerTo, TraceOf
    <2>4. HandlerTo(b, 0, rep, Noted(IF state[b] = 0 THEN << >> ELSE trace[b], evs))
      BY <1>1, <2>3
    <2> QED BY <1>2, <1>5, <2>1, <2>4, GoKeeps
  <1> QED BY <1>1, <1>4, <1>5

LEMMA RepeatedKeeps ==
    ASSUME HandleInv, NEW b \in Buttons, Repeated(b) PROVE Kept'
  <1> DEFINE rep == repeat[b]
             evs == <<"PRESS_UP">>
             none == << >>
  <1>1. /\ state[b] = 3 /\ repeat' = repeat
        /\ \/ Pressed(b) /\ Go(b, 3, none)
           \/ ~Pressed(b) /\ (Go(b, 2, evs) \/ Go(b, 0, evs))
    BY DEF Repeated
  <1>2. /\ trace[b] \in TraceOf(conf[b], 3, rep) /\ trace[b] \in Seq(Events)
        /\ rep \in 0 .. MaxClicks /\ rep >= 2 /\ ~conf[b].again
        /\ button_level[b] = conf[b].active /\ conf[b].active \in 0 .. 1 /\ pin[b] \in 0 .. 1
        /\ repeat' = [repeat EXCEPT ![b] = rep] /\ MaxClicks \in Nat
    BY <1>1, AtButton, SameRepeat
  <1> HIDE DEF rep
  <1>3. Noted(trace[b], evs) = Clicks(rep) /\ Clicks(rep) \in Gestures(conf[b]) /\ evs \in Seq(Events)
    <2>1. trace[b] = PressedAgain(rep - 1)
      BY <1>2 DEF TraceOf
    <2>2. rep - 1 \in Nat \ {0} /\ rep - 1 + 1 = rep /\ rep \in 1 .. MaxClicks
      BY <1>2
    <2>3. \A n \in Nat \ {0} : Noted(PressedAgain(n), <<"PRESS_UP">>) = Clicks(n + 1)
      BY GestureClicks
    <2>4. Noted(PressedAgain(rep - 1), evs) = Clicks(rep)
      BY <2>2, <2>3
    <2>5. Clicks(rep) \in Gestures(conf[b])
      BY <1>2, <2>2, WholeClicks
    <2> QED BY <2>1, <2>4, <2>5, CallbackTypes
  <1>4. ~Pressed(b) => pin[b] = Released(b)
    BY <1>2 DEF Pressed, Level, Changes, Released
  <1>5. CASE Pressed(b) /\ Go(b, 3, none)
    <2>1. Noted(trace[b], none) = trace[b] /\ none \in Seq(Events)
      BY <1>2, NoCallback
    <2>2. HandlerTo(b, 3, rep, Noted(trace[b], none))
      BY <1>2, <1>5, <2>1 DEF HandlerTo
    <2>3. HandlerTo(b, 3, rep, Noted(IF state[b] = 0 THEN << >> ELSE trace[b], none))
      BY <1>1, <2>2
    <2> HIDE DEF none
    <2> QED BY <1>2, <1>5, <2>1, <2>3, GoKeeps
  <1> HIDE DEF evs
  <1>6. ASSUME NEW to \in {0, 2}, ~Pressed(b), Go(b, to, evs) PROVE Kept'
    <2>1. HandlerTo(b, to, rep, Noted(trace[b], evs))
      BY <1>2, <1>3, <1>4, <1>6 DEF HandlerTo, TraceOf
    <2>2. HandlerTo(b, to, rep, Noted(IF state[b] = 0 THEN << >> ELSE trace[b], evs))
      BY <1>1, <2>1
    <2> QED BY <1>2, <1>3, <1>6, <2>2, GoKeeps
  <1> QED BY <1>1, <1>5, <1>6

LEMMA HoldKeeps ==
    ASSUME HandleInv, NEW b \in Buttons, Hold(b) PROVE Kept'
  <1> DEFINE up == <<"PRESS_UP">>
             hold == <<"LONG_PRESS_HOLD">>
  <1>1. /\ state[b] = 5 /\ repeat' = repeat
        /\ (Pressed(b) /\ Go(b, 5, hold)) \/ (~Pressed(b) /\ Go(b, 0, up))
    BY DEF Hold
  <1>2. /\ trace[b] \in TraceOf(conf[b], 5, repeat[b]) /\ ~conf[b].again
        /\ repeat[b] \in 0 .. MaxClicks /\ repeat' = [repeat EXCEPT ![b] = repeat[b]]
    BY <1>1, AtButton, SameRepeat
  <1>3. trace[b] \in {DownLong, DownLongHold}
    BY <1>2 DEF TraceOf
  <1>4. hold \in Seq(Events) /\ up \in Seq(Events)
    BY CallbackTypes
  <1>5. Noted(trace[b], hold) = DownLongHold
    BY <1>3, Gesture
  <1>6. Noted(trace[b], up) \in Gestures(conf[b])
    BY <1>2, <1>3, Gesture DEF Gestures
  <1> HIDE DEF up, hold
  <1>7. CASE Pressed(b) /\ Go(b, 5, hold)
    <2>1. HandlerTo(b, 5, repeat[b], Noted(trace[b], hold))
      BY <1>2, <1>5, <1>7 DEF HandlerTo, TraceOf
    <2>2. HandlerTo(b, 5, repeat[b], Noted(IF state[b] = 0 THEN << >> ELSE trace[b], hold))
      BY <1>1, <2>1
    <2> QED BY <1>2, <1>4, <1>7, <2>2, GoKeeps
  <1>8. CASE ~Pressed(b) /\ Go(b, 0, up)
    <2>1. HandlerTo(b, 0, repeat[b], Noted(trace[b], up))
      BY <1>2, <1>6, <1>8 DEF HandlerTo, TraceOf
    <2>2. HandlerTo(b, 0, repeat[b], Noted(IF state[b] = 0 THEN << >> ELSE trace[b], up))
      BY <1>1, <2>1
    <2> QED BY <1>2, <1>4, <1>8, <2>2, GoKeeps
  <1> QED BY <1>1, <1>7, <1>8

LEMMA AgainKeeps ==
    ASSUME HandleInv, NEW b \in Buttons, Again(b) PROVE Kept'
  <1> DEFINE up == <<"PRESS_UP">>
             none == << >>
  <1>1. /\ state[b] = 6 /\ repeat' = repeat
        /\ (Pressed(b) /\ Go(b, 1, none)) \/ (~Pressed(b) /\ Go(b, 0, up))
    BY DEF Again
  <1>2. /\ trace[b] \in TraceOf(conf[b], 6, repeat[b]) /\ conf[b].again /\ repeat[b] = 1
        /\ trace[b] \in Seq(Events)
        /\ repeat[b] \in 0 .. MaxClicks /\ repeat' = [repeat EXCEPT ![b] = repeat[b]]
    BY <1>1, AtButton, SameRepeat
  <1>3. trace[b] = DownLong
    BY <1>2 DEF TraceOf
  <1>4. none \in Seq(Events) /\ up \in Seq(Events) /\ Noted(trace[b], none) = DownLong
    BY <1>2, <1>3, CallbackTypes, NoCallback
  <1>5. Noted(trace[b], up) \in Gestures(conf[b])
    BY <1>2, <1>3, Gesture DEF Gestures
  <1> HIDE DEF up, none
  <1>6. CASE Pressed(b) /\ Go(b, 1, none)
    <2>1. HandlerTo(b, 1, repeat[b], Noted(trace[b], none))
      BY <1>2, <1>4, <1>6 DEF HandlerTo, TraceOf
    <2>2. HandlerTo(b, 1, repeat[b], Noted(IF state[b] = 0 THEN << >> ELSE trace[b], none))
      BY <1>1, <2>1
    <2> QED BY <1>2, <1>4, <1>6, <2>2, GoKeeps
  <1>7. CASE ~Pressed(b) /\ Go(b, 0, up)
    <2>1. HandlerTo(b, 0, repeat[b], Noted(trace[b], up))
      BY <1>2, <1>5, <1>7 DEF HandlerTo, TraceOf
    <2>2. HandlerTo(b, 0, repeat[b], Noted(IF state[b] = 0 THEN << >> ELSE trace[b], up))
      BY <1>1, <2>1
    <2> QED BY <1>2, <1>4, <1>7, <2>2, GoKeeps
  <1> QED BY <1>1, <1>6, <1>7

-----------------------------------------------------------------------------
LEMMA HandleInit == Init => HandleType /\ BounceInv /\ (MaxClicks < RepeatWrap => Kept)
  <1> SUFFICES ASSUME Init PROVE HandleType /\ BounceInv /\ (MaxClicks < RepeatWrap => Kept)
    OBVIOUS
  <1>1. conf \in [Buttons -> Configs] /\ pin = [b \in Buttons |-> Released(b)]
    BY DEF Init
  <1>2. \A b \in Buttons : conf[b].active \in 0 .. 1
    <2> TAKE b \in Buttons
    <2>1. conf[b] \in [ext : BOOLEAN, active : 0 .. 1, again : BOOLEAN, long : 0 .. Wrap - 2]
      BY <1>1, ButtonAssumption
    <2> QED BY <2>1
  <1>3. pin \in [Buttons -> 0 .. 1] /\ button_level \in [Buttons -> 0 .. 1]
    <2>1. \A b \in Buttons : Released(b) \in 0 .. 1
      <3>1. \A x \in 0 .. 1 : 1 - x \in 0 .. 1
        OBVIOUS
      <3> QED BY <1>2, <3>1 DEF Released
    <2>2. pin \in [Buttons -> 0 .. 1]
      BY <1>1, <2>1
    <2>3. \A b \in Buttons : FirstLevel(conf[b], pin[b]) \in 0 .. 1
      BY <2>2 DEF FirstLevel
    <2> QED BY <2>2, <2>3 DEF Init
  <1>4. /\ repeat \in [Buttons -> 0 .. RepeatWrap - 1] /\ state \in [Buttons -> {0, 1, 2, 3, 5, 6}]
        /\ debounce_cnt \in [Buttons -> 0 .. CntWrap - 1] /\ ticks \in [Buttons -> 0 .. Wrap - 1]
        /\ trace \in [Buttons -> Seq(Events)]
    BY ButtonAssumption DEF Init
  <1>5. seen \in [Buttons -> [level : 0 .. 1, times : 0 .. Debounce]]
    BY <1>3, ButtonAssumption DEF Init
  <1>6. event \in [Buttons -> Events]
    BY DEF Init, Events
  <1>7. \A b \in Buttons : /\ state[b] = 0 /\ trace[b] = << >> /\ debounce_cnt[b] = 0
                           /\ seen[b].times = 0 /\ repeat[b] = 0
    BY DEF Init
  <1>8. HandleType
    BY <1>1, <1>3, <1>4, <1>5, <1>6 DEF HandleType
  <1>9. BounceInv /\ LevelInv /\ (MaxClicks < RepeatWrap => Presses)
    BY <1>7, ButtonAssumption DEF BounceInv, LevelInv, Presses
  <1>10. TraceInv
    <2>1. \A c, r : << >> \in TraceOf(c, 0, r)
      BY DEF TraceOf
    <2>2. ASSUME NEW b \in Buttons
          PROVE  /\ trace[b] \in TraceOf(conf[b], state[b], repeat[b])
                 /\ state[b] \notin {1, 2, 3, 5, 6}
      BY <1>7, <2>1
    <2> QED BY <2>2 DEF TraceInv
  <1> QED BY <1>8, <1>9, <1>10 DEF Kept

\* The steps that change a handle or a pin.
LEMMA HandleSteps ==
    ASSUME [Next]_vars
    PROVE  \/ UNCHANGED <<conf, handle, pin>>
           \/ \E b \in Buttons : button_init(b) \/ Finger(b) \/ button_handler(b)
  BY DEF Next, vars, button_start, button_stop, StartSearch, StartLink, StartHead, StopStep,
     button_ticks

\* A handler reads its pin and goes on to some state, with one of the callbacks.
States == {0, 1, 2, 3, 5, 6}
Called == {<<"PRESS_DOWN">>, <<"PRESS_UP">>, <<"PRESS_DOWN", "PRESS_REPEAT">>, <<"SINGLE_CLICK">>,
           <<"DOUBLE_CLICK">>, <<"LONG_PRESS_START">>, <<"LONG_PRESS_HOLD">>, << >>}
Counts(b) == {repeat[b], 1, (repeat[b] + 1) % RepeatWrap}

LEMMA HandlerGoes ==
    ASSUME HandleType, NEW b \in Buttons, button_handler(b), ~Idle(b)
    PROVE  \E to \in States, evs \in Called, t \in {0, Time(b)}, r \in Counts(b) :
              Go(b, to, evs) /\ Ticks(b, t) /\ repeat' = [repeat EXCEPT ![b] = r]
  <1>1. UNCHANGED repeat => repeat' = [repeat EXCEPT ![b] = repeat[b]]
    BY DEF HandleType
  <1>2. CASE PressDown(b)
    BY <1>2 DEF PressDown, States, Called, Counts
  <1>3. CASE PressUp(b)
    BY <1>1, <1>3 DEF PressUp, States, Called, Counts
  <1>4. CASE LongPress(b)
    BY <1>1, <1>4 DEF LongPress, States, Called, Counts
  <1>5. CASE PressAgain(b)
    BY <1>5 DEF PressAgain, States, Called, Counts
  <1>6. CASE Click(b)
    BY <1>1, <1>6 DEF Click, States, Called, Counts
  <1>7. CASE Repeated(b)
    BY <1>1, <1>7 DEF Repeated, States, Called, Counts
  <1>8. CASE Hold(b)
    BY <1>1, <1>8 DEF Hold, States, Called, Counts
  <1>9. CASE Again(b)
    BY <1>1, <1>9 DEF Again, States, Called, Counts
  <1> QED BY <1>2, <1>3, <1>4, <1>5, <1>6, <1>7, <1>8, <1>9 DEF button_handler

LEMMA HandlerSamples ==
    ASSUME NEW b \in Buttons, button_handler(b)
    PROVE  isr = b /\ Sample(b) /\ conf' = conf /\ pin' = pin
  BY DEF button_handler, Idle, PressDown, PressUp, LongPress, PressAgain, Click, Repeated, Hold,
     Again, Go

LEMMA HandlerTypes ==
    ASSUME HandleType, NEW b \in Buttons, button_handler(b) PROVE HandleType'
  <1>1. /\ debounce_cnt' \in [Buttons -> 0 .. CntWrap - 1] /\ button_level' \in [Buttons -> 0 .. 1]
        /\ seen' \in [Buttons -> [level : 0 .. 1, times : 0 .. Debounce]]
        /\ conf' = conf /\ pin' = pin
    BY HandlerSamples, SampleOk
  <1>2. CASE Idle(b)
    <2>1. "NONE_PRESS" \in Events
      BY DEF Events
    <2>2. /\ ticks' = ticks /\ repeat' = repeat /\ state' = state /\ trace' = trace
          /\ event' = [event EXCEPT ![b] = "NONE_PRESS"]
      BY <1>2 DEF Idle
    <2> QED BY <1>1, <2>1, <2>2 DEF HandleType
  <1>3. CASE ~Idle(b)
    <2>1. PICK to \in States, evs \in Called, t \in {0, Time(b)}, r \in Counts(b) :
             Go(b, to, evs) /\ Ticks(b, t) /\ repeat' = [repeat EXCEPT ![b] = r]
      BY <1>3, HandlerGoes
    <2>2. evs \in Seq(Events)
      BY CallbackTypes DEF Called
    <2>3. t \in 0 .. Wrap - 1
      <3>1. Wrap \in Nat \ {0} /\ ticks[b] \in 0 .. Wrap - 1
        BY ButtonAssumption DEF HandleType
      <3>2. \A x \in Nat : x % Wrap \in 0 .. Wrap - 1
        BY <3>1
      <3> QED BY <3>1, <3>2 DEF Time
    <2>4. r \in 0 .. RepeatWrap - 1
      <3>1. RepeatWrap \in Nat /\ RepeatWrap > 1 /\ repeat[b] \in 0 .. RepeatWrap - 1
        BY ButtonAssumption DEF HandleType
      <3>2. \A x \in Nat : x % RepeatWrap \in 0 .. RepeatWrap - 1
        BY <3>1
      <3> QED BY <3>1, <3>2 DEF Counts
    <2>5. event' \in [Buttons -> Events]
      <3>1. evs # << >> => evs[1] \in Events
        <4> SUFFICES ASSUME evs # << >> PROVE evs[1] \in Events
          OBVIOUS
        <4>1. Len(evs) \in Nat \ {0}
          BY <2>2, EmptySeq
        <4> QED BY <2>2, <4>1
      <3>2. event' = [event EXCEPT ![b] = IF evs = << >> THEN event[b] ELSE evs[1]]
        BY <2>1 DEF Go
      <3> QED BY <3>1, <3>2 DEF HandleType
    <2>6. trace' \in [Buttons -> Seq(Events)]
      <3> DEFINE before == IF state[b] = 0 THEN << >> ELSE trace[b]
      <3>1. before \in Seq(Events)
        BY DEF HandleType
      <3>2. trace' = [trace EXCEPT ![b] = Noted(before, evs)]
        BY <2>1 DEF Go
      <3> HIDE DEF before
      <3>3. Noted(before, evs) \in Seq(Events)
        BY <2>2, <3>1 DEF Noted
      <3> QED BY <3>2, <3>3 DEF HandleType
    <2>7. state' \in [Buttons -> {0, 1, 2, 3, 5, 6}]
      BY <2>1 DEF Go, States, HandleType
    <2>8. ticks' \in [Buttons -> 0 .. Wrap - 1] /\ repeat' \in [Buttons -> 0 .. RepeatWrap - 1]
      BY <2>1, <2>3, <2>4 DEF Ticks, HandleType
    <2> QED BY <1>1, <2>5, <2>6, <2>7, <2>8 DEF HandleType
  <1> QED BY <1>2, <1>3

\* button_init puts a button back to rest with a fresh level.
LEMMA InitKeeps ==
    ASSUME HandleType, NEW b \in Buttons, button_init(b)
    PROVE  HandleType' /\ (BounceInv => BounceInv') /\ (Kept => Kept')
  <1>1. /\ conf' = conf /\ pin' = pin
        /\ ticks' = [ticks EXCEPT ![b] = 0] /\ event' = [event EXCEPT ![b] = "NONE_PRESS"]
        /\ repeat' = [repeat EXCEPT ![b] = 0] /\ state' = [state EXCEPT ![b] = 0]
        /\ debounce_cnt' = [debounce_cnt EXCEPT ![b] = 0]
        /\ button_level' = [button_level EXCEPT ![b] = FirstLevel(conf[b], pin[b])]
        /\ trace' = [trace EXCEPT ![b] = << >>]
        /\ seen' = [seen EXCEPT ![b] = [level |-> pin[b], times |-> 0]]
    BY DEF button_init
  <1>2. /\ FirstLevel(conf[b], pin[b]) \in 0 .. 1 /\ pin[b] \in 0 .. 1 /\ Debounce \in Nat \ {0}
        /\ MaxClicks \in Nat /\ "NONE_PRESS" \in Events
        /\ 0 \in 0 .. RepeatWrap - 1 /\ 0 \in 0 .. CntWrap - 1 /\ 0 \in 0 .. Wrap - 1
    BY ButtonAssumption DEF HandleType, FirstLevel, Events
  <1>3. HandleType'
    BY <1>1, <1>2 DEF HandleType
  <1>4. /\ state'[b] = 0 /\ repeat'[b] = 0 /\ debounce_cnt'[b] = 0 /\ trace'[b] = << >>
        /\ seen'[b].times = 0
    BY <1>1 DEF HandleType
  <1>5. \A c \in Buttons \ {b} :
            /\ state'[c] = state[c] /\ repeat'[c] = repeat[c] /\ debounce_cnt'[c] = debounce_cnt[c]
            /\ trace'[c] = trace[c] /\ seen'[c] = seen[c] /\ button_level'[c] = button_level[c]
    BY <1>1 DEF HandleType
  <1>6. BounceInv => BounceInv'
    BY <1>2, <1>4, <1>5 DEF BounceInv
  <1>7. LevelInv => LevelInv'
    BY <1>1, <1>4, <1>5 DEF LevelInv, Released
  <1>8. ASSUME TraceInv PROVE TraceInv'
    <2> SUFFICES ASSUME NEW c \in Buttons
                 PROVE  /\ trace'[c] \in TraceOf(conf[c], state'[c], repeat'[c])
                        /\ state'[c] \in {2, 3, 5} => ~conf[c].again
                        /\ state'[c] = 6 => conf[c].again
                        /\ state'[c] \in {1, 6} => repeat'[c] = 1
                        /\ state'[c] = 2 => repeat'[c] >= 1
                        /\ state'[c] = 3 => repeat'[c] >= 2
      BY <1>1 DEF TraceInv
    <2>1. CASE c = b
      <3>1. << >> \in TraceOf(conf[b], 0, 0)
        BY DEF TraceOf
      <3> QED BY <1>4, <2>1, <3>1
    <2>2. CASE c # b
      BY <1>5, <1>8, <2>2 DEF TraceInv
    <2> QED BY <2>1, <2>2
  <1>9. Presses => Presses'
    BY <1>2, <1>4, <1>5 DEF Presses
  <1> QED BY <1>3, <1>6, <1>7, <1>8, <1>9 DEF Kept

LEMMA FingerKeeps ==
    ASSUME HandleType, NEW b \in Buttons, Finger(b)
    PROVE  HandleType' /\ (BounceInv => BounceInv') /\ (Kept => Kept')
  <1>1. /\ pin[b] = Released(b) => ~(state[b] \in {2, 3} /\ repeat[b] = MaxClicks)
        /\ pin' = [pin EXCEPT ![b] = 1 - pin[b]] /\ conf' = conf /\ ticks' = ticks
        /\ event' = event /\ repeat' = repeat /\ state' = state /\ debounce_cnt' = debounce_cnt
        /\ button_level' = button_level /\ trace' = trace /\ seen' = seen
    BY DEF Finger, handle
  <1>2. HandleType'
    <2>1. 1 - pin[b] \in 0 .. 1
      <3>1. \A x \in 0 .. 1 : 1 - x \in 0 .. 1
        OBVIOUS
      <3>2. pin[b] \in 0 .. 1
        BY DEF HandleType
      <3> QED BY <3>1, <3>2
    <2>2. pin' \in [Buttons -> 0 .. 1]
      BY <1>1, <2>1 DEF HandleType
    <2> QED BY <1>1, <2>2 DEF HandleType
  <1>3. (BounceInv => BounceInv') /\ (TraceInv => TraceInv') /\ (Presses => Presses')
    BY <1>1 DEF BounceInv, TraceInv, Presses
  <1>4. \A c \in Buttons \ {b} : pin'[c] = pin[c]
    BY <1>1 DEF HandleType
  <1>5. LevelInv => LevelInv'
    BY <1>1, <1>4 DEF LevelInv, Released
  <1> QED BY <1>2, <1>3, <1>5 DEF Kept

LEMMA HandlesSame ==
    ASSUME HandleType, UNCHANGED <<conf, handle, pin>>
    PROVE  HandleType' /\ (BounceInv => BounceInv') /\ (Kept => Kept')
  BY DEF HandleType, BounceInv, Kept, Presses, LevelInv, TraceInv, Released, handle

LEMMA TypeNext ==
    ASSUME HandleType, [Next]_vars PROVE HandleType'
  BY HandleSteps, HandlesSame, InitKeeps, FingerKeeps, HandlerTypes

LEMMA BounceNext ==
    ASSUME Debounce < CntWrap, HandleType, BounceInv, [Next]_vars PROVE BounceInv'
  <1>1. ASSUME NEW b \in Buttons, button_handler(b) PROVE BounceInv'
    BY <1>1, HandlerSamples, SampleBounce
  <1> QED BY <1>1, HandleSteps, HandlesSame, InitKeeps, FingerKeeps

LEMMA HandleNext ==
    ASSUME HandleInv, [Next]_vars PROVE HandleInv'
  <1>1. ASSUME NEW b \in Buttons, button_handler(b) PROVE Kept'
    BY <1>1, IdleKeeps, PressDownKeeps, PressUpKeeps, LongPressKeeps, PressAgainKeeps, ClickKeeps,
       RepeatedKeeps, HoldKeeps, AgainKeeps DEF button_handler
  <1>2. HandleType /\ Kept
    BY DEF HandleInv
  <1>3. Kept'
    BY <1>1, <1>2, HandleSteps, HandlesSame, InitKeeps, FingerKeeps
  <1> QED BY <1>2, <1>3, TypeNext DEF HandleInv

\* Every handle has its type in every reachable state.
THEOREM TypeInvariant == Spec => []HandleType
  <1>1. HandleType /\ [Next]_vars => HandleType'
    BY TypeNext
  <1>2. Init => HandleType
    BY HandleInit
  <1> QED BY <1>1, <1>2, PTL DEF Spec

\* A counter that can count Debounce readings counts those that differ from the level.
THEOREM BounceInvariant == ASSUME Debounce < CntWrap PROVE Spec => []BounceInv
  <1>1. HandleType /\ BounceInv /\ [Next]_vars => BounceInv'
    BY BounceNext
  <1>2. Init => BounceInv
    BY HandleInit
  <1> QED BY <1>1, <1>2, TypeInvariant, PTL DEF Spec

\* The level and the callbacks of every handle are those of its state, when the presses in a
\* row are no more than `repeat' can count.
THEOREM HandleInvariant == ASSUME MaxClicks < RepeatWrap PROVE Spec => []HandleInv
  <1>1. HandleInv /\ [Next]_vars => HandleInv'
    BY HandleNext
  <1>2. Init => HandleInv
    BY HandleInit DEF HandleInv
  <1> QED BY <1>1, <1>2, PTL DEF Spec

-----------------------------------------------------------------------------
(* What the invariant gives.                                               *)

LEMMA PrefixOf ==
    ASSUME NEW t \in Seq(Events), NEW g \in Seq(Events), Len(t) <= Len(g),
           \A i \in 1 .. Len(t) : t[i] = g[i]
    PROVE  SubSeq(g, 1, Len(t)) = t
  <1>1. Len(t) \in Nat /\ Len(g) \in Nat
    OBVIOUS
  <1>2. /\ SubSeq(g, 1, Len(t)) \in Seq(Events) /\ Len(SubSeq(g, 1, Len(t))) = Len(t)
        /\ \A i \in 1 .. Len(t) : SubSeq(g, 1, Len(t))[i] = g[i]
    BY <1>1
  <1>3. \A i \in 1 .. Len(t) : SubSeq(g, 1, Len(t))[i] = t[i]
    BY <1>2
  <1> QED BY <1>2, <1>3, SameEvents

\* t is the beginning of g.
Begins(t, g) == Len(t) <= Len(g) /\ SubSeq(g, 1, Len(t)) = t

LEMMA BeginsBy ==
    ASSUME NEW t \in Seq(Events), NEW g \in Seq(Events), NEW n \in Nat, Len(t) = n, n <= Len(g),
           \A i \in 1 .. n : t[i] = g[i]
    PROVE  Begins(t, g)
  BY PrefixOf DEF Begins

LEMMA BeginsSelf ==
    ASSUME NEW t \in Seq(Events) PROVE Begins(t, t)
  <1>1. Len(t) \in Nat
    OBVIOUS
  <1> QED BY <1>1, PrefixOf DEF Begins

LEMMA BeginsJoined ==
    ASSUME NEW t \in Seq(Events), NEW e \in Seq(Events) PROVE Begins(t, t \o e)
  <1>1. Len(t) \in Nat /\ Len(e) \in Nat
    OBVIOUS
  <1>2. /\ t \o e \in Seq(Events) /\ Len(t \o e) = Len(t) + Len(e)
        /\ SubSeq(t \o e, 1, Len(t)) = t
    BY Joined
  <1> QED BY <1>1, <1>2 DEF Begins

\* A long press, reported or not, is the beginning of one that ends.
LEMMA BeginsLong ==
    /\ Begins(Down, <<"PRESS_DOWN", "LONG_PRESS_START", "PRESS_UP">>)
    /\ Begins(DownLong, <<"PRESS_DOWN", "LONG_PRESS_START", "PRESS_UP">>)
    /\ Begins(DownLongHold, <<"PRESS_DOWN", "LONG_PRESS_START", "LONG_PRESS_HOLD", "PRESS_UP">>)
  <1> DEFINE d == "PRESS_DOWN"
             u == "PRESS_UP"
             l == "LONG_PRESS_START"
             h == "LONG_PRESS_HOLD"
  <1>1. d \in Events /\ u \in Events /\ l \in Events /\ h \in Events
    BY DEF Events
  <1> HIDE DEF d, u, l, h
  <1>2. /\ <<d>> \in Seq(Events) /\ <<d, l>> \in Seq(Events) /\ <<d, l, h>> \in Seq(Events)
        /\ <<d, l, u>> \in Seq(Events) /\ <<d, l, h, u>> \in Seq(Events)
        /\ Len(<<d>>) = 1 /\ Len(<<d, l>>) = 2 /\ Len(<<d, l, h>>) = 3 /\ Len(<<d, l, u>>) = 3
        /\ Len(<<d, l, h, u>>) = 4
    BY <1>1
  <1>3. \A i \in 1 .. 1 : <<d>>[i] = <<d, l, u>>[i]
    OBVIOUS
  <1>4. \A i \in 1 .. 2 : <<d, l>>[i] = <<d, l, u>>[i]
    OBVIOUS
  <1>5. \A i \in 1 .. 3 : <<d, l, h>>[i] = <<d, l, h, u>>[i]
    OBVIOUS
  <1>6. Begins(<<d>>, <<d, l, u>>)
    <2> DEFINE t == <<d>>
               g == <<d, l, u>>
    <2>1. t \in Seq(Events) /\ g \in Seq(Events) /\ Len(t) = 1 /\ 1 <= Len(g)
          /\ \A i \in 1 .. 1 : t[i] = g[i]
      BY <1>2, <1>3
    <2> HIDE DEF t, g
    <2>2. Begins(t, g)
      BY <2>1, BeginsBy
    <2> QED BY <2>2 DEF t, g
  <1>7. Begins(<<d, l>>, <<d, l, u>>)
    <2> DEFINE t == <<d, l>>
               g == <<d, l, u>>
    <2>1. t \in Seq(Events) /\ g \in Seq(Events) /\ Len(t) = 2 /\ 2 <= Len(g)
          /\ \A i \in 1 .. 2 : t[i] = g[i]
      BY <1>2, <1>4
    <2> HIDE DEF t, g
    <2>2. Begins(t, g)
      BY <2>1, BeginsBy
    <2> QED BY <2>2 DEF t, g
  <1>8. Begins(<<d, l, h>>, <<d, l, h, u>>)
    <2> DEFINE t == <<d, l, h>>
               g == <<d, l, h, u>>
    <2>1. t \in Seq(Events) /\ g \in Seq(Events) /\ Len(t) = 3 /\ 3 <= Len(g)
          /\ \A i \in 1 .. 3 : t[i] = g[i]
      BY <1>2, <1>5
    <2> HIDE DEF t, g
    <2>2. Begins(t, g)
      BY <2>1, BeginsBy
    <2> QED BY <2>2 DEF t, g
  <1> QED BY <1>6, <1>7, <1>8 DEF Down, DownLong, DownLongHold, d, u, l, h

LEMMA InGesture ==
    ASSUME HandleInv, NEW b \in Buttons, trace[b] # << >>
    PROVE  \E g \in Gestures(conf[b]) : Begins(trace[b], g)
  <1> DEFINE t == trace[b]
             rep == repeat[b]
             long == <<"PRESS_DOWN", "LONG_PRESS_START", "PRESS_UP">>
             held == <<"PRESS_DOWN", "LONG_PRESS_START", "LONG_PRESS_HOLD", "PRESS_UP">>
  <1>1. /\ t \in TraceOf(conf[b], state[b], rep) /\ t \in Seq(Events) /\ t # << >>
        /\ state[b] \in {0, 1, 2, 3, 5, 6} /\ rep \in 0 .. MaxClicks
        /\ state[b] \in {2, 3, 5} => ~conf[b].again
        /\ state[b] = 2 => rep >= 1
        /\ state[b] = 3 => rep >= 2
        /\ MaxClicks \in Nat
    BY AtButton
  <1>2. long \in Gestures(conf[b]) /\ (~conf[b].again => held \in Gestures(conf[b]))
    BY DEF Gestures
  <1>3. Begins(Down, long) /\ Begins(DownLong, long) /\ Begins(DownLongHold, held)
    BY BeginsLong
  <1> HIDE DEF t, rep, long, held
  <1>4. CASE state[b] = 0
    <2>1. t \in Gestures(conf[b])
      BY <1>1, <1>4 DEF TraceOf
    <2>2. Begins(t, t)
      BY <1>1, BeginsSelf
    <2> QED BY <2>1, <2>2 DEF t
  <1>5. CASE state[b] = 1
    <2>1. t \in {Down, DownLong}
      BY <1>1, <1>5 DEF TraceOf
    <2> QED BY <1>2, <1>3, <2>1 DEF t
  <1>6. CASE state[b] = 2
    <2>1. t = Clicks(rep) /\ rep \in 1 .. MaxClicks /\ ~conf[b].again
      BY <1>1, <1>6 DEF TraceOf
    <2>2. CASE rep = 1
      <3> DEFINE e == <<"SINGLE_CLICK">>
      <3>1. Clicks(rep) \o e \in Gestures(conf[b])
        BY <2>1, <2>2, WholeClicks
      <3>2. e \in Seq(Events)
        BY CallbackTypes
      <3> HIDE DEF e
      <3>3. Begins(t, t \o e)
        BY <1>1, <3>2, BeginsJoined
      <3> QED BY <2>1, <3>1, <3>3 DEF t
    <2>3. CASE rep # 1
      <3>1. Clicks(rep) \in Gestures(conf[b])
        BY <2>1, <2>3, WholeClicks
      <3>2. Begins(t, t)
        BY <1>1, BeginsSelf
      <3> QED BY <2>1, <3>1, <3>2 DEF t
    <2> QED BY <2>2, <2>3
  <1>7. CASE state[b] = 3
    <2> DEFINE e == <<"PRESS_UP">>
    <2>1. t = PressedAgain(rep - 1) /\ rep \in 2 .. MaxClicks /\ ~conf[b].again
      BY <1>1, <1>7 DEF TraceOf
    <2>2. rep - 1 \in Nat \ {0} /\ rep - 1 + 1 = rep /\ rep \in 1 .. MaxClicks /\ rep >= 2
      BY <1>1, <2>1
    <2>3. \A n \in Nat \ {0} : PressedAgain(n) \o <<"PRESS_UP">> = Clicks(n + 1)
      BY ClicksMore
    <2>4. t \o e = Clicks(rep)
      BY <2>1, <2>2, <2>3
    <2>5. Clicks(rep) \in Gestures(conf[b])
      BY <2>1, <2>2, WholeClicks
    <2>6. e \in Seq(Events)
      BY CallbackTypes
    <2> HIDE DEF e
    <2>7. Begins(t, t \o e)
      BY <1>1, <2>6, BeginsJoined
    <2> QED BY <2>4, <2>5, <2>7 DEF t
  <1>8. CASE state[b] = 5
    <2>1. t \in {DownLong, DownLongHold} /\ ~conf[b].again
      BY <1>1, <1>8 DEF TraceOf
    <2> QED BY <1>2, <1>3, <2>1 DEF t
  <1>9. CASE state[b] = 6
    <2>1. t = DownLong
      BY <1>1, <1>9 DEF TraceOf
    <2> QED BY <1>2, <1>3, <2>1 DEF t
  <1> QED BY <1>1, <1>4, <1>5, <1>6, <1>7, <1>8, <1>9

\* The callbacks of every button come in the order of a gesture, and are a whole gesture when
\* the button is at rest, when the presses in a row are no more than `repeat' can count.
THEOREM GesturesInOrder == ASSUME MaxClicks < RepeatWrap PROVE Spec => []EventOrder
  <1>1. ASSUME HandleInv PROVE EventOrder
    <2> SUFFICES ASSUME NEW b \in Buttons
                 PROVE  /\ trace[b] # << >> => \E g \in Gestures(conf[b]) : Begins(trace[b], g)
                        /\ state[b] = 0 => trace[b] \in Gestures(conf[b]) \cup {<< >>}
      BY DEF EventOrder, Begins
    <2>1. trace[b] # << >> => \E g \in Gestures(conf[b]) : Begins(trace[b], g)
      BY <1>1, InGesture
    <2>2. trace[b] \in TraceOf(conf[b], state[b], repeat[b])
      BY <1>1, AtButton
    <2>3. state[b] = 0 => trace[b] \in Gestures(conf[b]) \cup {<< >>}
      BY <2>2 DEF TraceOf
    <2> QED BY <2>1, <2>3
  <1> QED BY <1>1, HandleInvariant, PTL

\* A level counts at the Debounce-th reading in a row and not before, when debounce_cnt can
\* count so far.
THEOREM BouncesIgnored == ASSUME Debounce < CntWrap PROVE Spec => Debounced
  <1> DEFINE Step == \A b \in Buttons :
                isr = b => /\ button_level'[b] # button_level[b] => seen'[b].times >= Debounce
                           /\ seen'[b].times >= Debounce => button_level'[b] = seen'[b].level
  <1>1. ASSUME HandleType, BounceInv, [Next]_vars PROVE [Step]_vars
    <2> SUFFICES ASSUME Next, NEW b \in Buttons, isr = b
                 PROVE  /\ button_level'[b] # button_level[b] => seen'[b].times >= Debounce
                        /\ seen'[b].times >= Debounce => button_level'[b] = seen'[b].level
      BY <1>1
    <2>1. isr # NULL
      BY ButtonAssumption
    <2>2. PICK c \in Buttons : button_handler(c)
      BY <2>1 DEF Next, button_start, button_stop, button_init, StartSearch, StartLink, StartHead,
         StopStep, button_ticks, Finger
    <2>3. isr = c /\ Sample(c)
      BY <2>2, HandlerSamples
    <2> QED BY <1>1, <2>3, SampleBounce
  <1> QED BY <1>1, TypeInvariant, BounceInvariant, PTL DEF Spec, Debounced

-----------------------------------------------------------------------------
\* Every variable has its type: ticks, repeat and debounce_cnt stay below their widths.
THEOREM Typed == Spec => []TypeOK
  <1>1. ListInv /\ HandleType => TypeOK
    BY DEF TypeOK, ListInv, ListType, Links, HandleType
  <1> QED BY <1>1, ListInvariant, TypeInvariant, PTL
=============================================================================
