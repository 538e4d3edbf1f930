---------------------------- MODULE ShellProofs ----------------------------
(***************************************************************************)
(* What the two shells promise.                                            *)
(*                                                                         *)
(* The surface (SairiShell), for any number of intentions and clicks.  The *)
(* argument rests on the broker's status being the memory of a request: it *)
(* leaves "pending" once, a click of this tab that allows one finds it     *)
(* pending, this tab counts an execute only in that step, and no step      *)
(* leads back from "allowed" or "ran" to "pending".                        *)
(*                                                                         *)
(* The desktop (Desktop), for any number of contexts, of jobs in flight    *)
(* and of moves.  Each case of the window reducer keeps the windows        *)
(* stacked: one for an id, no two at the same height.  A job opens the     *)
(* window of the context it made, and only then runs in it, so no two runs *)
(* share one; that is why taking a context from the set that says          *)
(* "thinking" never silences another run.                                  *)
(***************************************************************************)
EXTENDS SairiShell, Desktop, FiniteSetTheorems, TLAPS

(* What a click of this tab allowed stays allowed, until it has run.       *)
AllowsLast == \A c \in allowedHere : broker[c] \in {"allowed", "ran"}

Allows == ExecuteFollowsItsAllow /\ AllowsLast

ShellInv == ShellTypeOK /\ Allows

LEMMA InitHolds == Init => ShellInv
  BY ShellAssumption DEF Init, ShellInv, ShellTypeOK, Allows, ExecuteFollowsItsAllow, AllowsLast, Nothing, Idle,
     Contexts, Runs, Clicks, NoContext, List, Statuses, Phases

(* A step that leaves the broker and the counts alone only has its types.  *)
LEMMA QuietStep ==
  ASSUME Allows, UNCHANGED <<broker, history>>
  PROVE  Allows'
  BY DEF Allows, ExecuteFollowsItsAllow, AllowsLast, history

LEMMA EffectTypes ==
  ASSUME NEW answers \in SUBSET (Contexts \union {List}), Effect(answers),
         active' \in Contexts \/ active' = active
  PROVE  asked' \in SUBSET (Contexts \union {List})
  BY DEF Effect

LEMMA QuietStepsHold ==
  ASSUME ShellInv,
         ListLands \/ PermissionsLand \/ Select \/ Unmount
  PROVE  ShellInv'
<1> USE ShellAssumption DEF ShellInv, ShellTypeOK, services, history, Contexts, NoContext
<1>1. CASE ListLands
  <2>1. asked' \in SUBSET (Contexts \union {List})
    BY <1>1, EffectTypes DEF ListLands
  <2>2. ShellTypeOK'
    BY <1>1, <2>1 DEF ListLands
  <2> QED BY <1>1, <2>2, QuietStep DEF ListLands
<1>2. CASE PermissionsLand
  <2>1. PICK c \in asked \ {List} :
           /\ \/ UNCHANGED shown
              \/ \E status \in Earlier(broker[c]) :
                    shown' = [of |-> c, pending |-> status = "pending"]
           /\ asked' = asked \ {c}
    BY <1>2 DEF PermissionsLand
  <2>2. c \in Contexts
    BY DEF List
  <2>3. shown' \in [of : Contexts \union {NoContext}, pending : BOOLEAN]
    <3>1. \A status : (status = "pending") \in BOOLEAN
      OBVIOUS
    <3>2. \A pending \in BOOLEAN :
             [of |-> c, pending |-> pending] \in [of : Contexts \union {NoContext}, pending : BOOLEAN]
      BY <2>2
    <3> QED BY <2>1, <3>1, <3>2, Zenon
  <2>4. ShellTypeOK'
    BY <1>2, <2>1, <2>3 DEF PermissionsLand
  <2> QED BY <1>2, <2>4, QuietStep DEF PermissionsLand
<1>3. CASE Select
  <2>1. asked' \in SUBSET (Contexts \union {List})
    BY <1>3, EffectTypes DEF Select
  <2>2. ShellTypeOK'
    BY <1>3, <2>1 DEF Select, Idle
  <2> QED BY <1>3, <2>2, QuietStep DEF Select
<1>4. CASE Unmount
  <2>1. ShellTypeOK'
    BY <1>4 DEF Unmount, Nothing, Idle, Statuses
  <2> QED BY <1>4, <2>1, QuietStep DEF Unmount
<1> QED BY <1>1, <1>2, <1>3, <1>4

(* The steps of begin() and of the stream it reads; only a stream that     *)
(* asks touches the broker, where there was no request before.             *)
LEMMA RunStepsHold ==
  ASSUME ShellInv, NEW r \in Runs, Begin(r) \/ BeginStep(r) \/ Stream(r)
  PROVE  ShellInv'
<1> USE ShellAssumption DEF ShellInv, ShellTypeOK, services, shell, history
<1>0. r \in Contexts /\ r \in Runs
  BY DEF Runs, Contexts
<1>1. CASE Begin(r)
  <2>1. ShellTypeOK'
    BY <1>1 DEF Begin, Phases
  <2> QED BY <1>1, <2>1, QuietStep DEF Begin
<1>2. CASE Created(r)
  <2>1. asked' \in SUBSET (Contexts \union {List})
    BY <1>0, <1>2, EffectTypes DEF Created
  <2>2. ShellTypeOK'
    BY <1>0, <1>2, <2>1 DEF Created, Phases
  <2> QED BY <1>2, <2>2, QuietStep DEF Created
<1>3. CASE NotCreated(r)
  <2>1. ShellTypeOK'
    BY <1>0, <1>3 DEF NotCreated, Phases
  <2> QED BY <1>3, <2>1, QuietStep DEF NotCreated
<1>4. CASE Submitted(r) \/ Opened(r) \/ StreamEnds(r) \/ StreamCut(r)
  <2>1. ShellTypeOK'
    BY <1>4 DEF Submitted, Opened, StreamEnds, StreamCut, Phases
  <2> QED BY <1>4, <2>1, QuietStep DEF Submitted, Opened, StreamEnds, StreamCut
<1>5. ASSUME NEW next \in Phases, Done(r, next)
      PROVE  ShellInv'
  <2>1. ShellTypeOK'
    BY <1>0, <1>5 DEF Done, Writes, Phases
  <2> QED BY <1>5, <2>1, QuietStep DEF Done
<1>6. CASE StreamEvent(r)
  <2>1. ShellTypeOK'
    BY <1>0, <1>6 DEF StreamEvent, Writes, Phases
  <2> QED BY <1>6, <2>1, QuietStep DEF StreamEvent
<1>7. CASE StreamAsks(r)
  <2>1. broker' \in [Contexts -> Statuses]
    BY <1>7 DEF StreamAsks, Statuses
  <2>2. asked' \in SUBSET (Contexts \union {List})
    BY <1>0, <1>7 DEF StreamAsks
  <2>3. display.status \in {"idle", "working"}
    OBVIOUS
  <2>4. display' \in [status : {"idle", "working"}, by : Runs \union {0}]
    BY <1>0, <1>7, <2>3 DEF StreamAsks, Writes
  <2>5. ShellTypeOK'
    BY <1>7, <2>1, <2>2, <2>4 DEF StreamAsks
  <2>6. \A c \in Contexts : broker'[c] = broker[c] \/ broker[c] = "none"
    BY <1>0, <1>7 DEF StreamAsks
  <2>7. UNCHANGED <<executes, allowedHere>>
    BY <1>7 DEF StreamAsks
  <2> QED BY <2>5, <2>6, <2>7 DEF Allows, ExecuteFollowsItsAllow, AllowsLast
<1> QED
  BY <1>1, <1>2, <1>3, <1>4, <1>5, <1>6, <1>7
     DEF BeginStep, Stream, NotOpened, StreamDone, Phases

(* A decision settles a pending request and touches nothing else.          *)
LEMMA DecisionSettles ==
  ASSUME broker \in [Contexts -> Statuses], NEW c \in Contexts, NEW allow \in BOOLEAN,
         Decision(c, allow)
  PROVE  /\ broker' \in [Contexts -> Statuses]
         /\ \A d \in Contexts : broker[d] # "pending" => broker'[d] = broker[d]
         /\ broker[c] = "pending" /\ allow => broker'[c] = "allowed"
  BY DEF Decision, Statuses

(* A click that is answered adds what it allowed to what this tab allowed. *)
LEMMA DecidingKeepsAllows ==
  ASSUME broker \in [Contexts -> Statuses], allowedHere \in SUBSET Contexts, AllowsLast,
         NEW k \in Clicks, click[k].on \in Contexts, click[k].allow \in BOOLEAN,
         DecisionOf(k)
  PROVE  /\ Decision(click[k].on, click[k].allow)
         /\ AllowsLast'
         /\ allowedHere' \in SUBSET Contexts
         /\ allowedHere \subseteq allowedHere'
<1>1. Decision(click[k].on, click[k].allow)
  BY DEF DecisionOf
<1>2. \A c \in allowedHere : broker'[c] = broker[c]
  BY <1>1, DecisionSettles DEF AllowsLast
<1>3. broker[click[k].on] = "pending" /\ click[k].allow => broker'[click[k].on] = "allowed"
  BY <1>1, DecisionSettles
<1> QED BY <1>1, <1>2, <1>3 DEF DecisionOf, AllowsLast

LEMMA ClickStepsHold ==
  ASSUME ShellInv, NEW k \in Clicks, Click(k) \/ Decide(k)
  PROVE  ShellInv'
<1> USE ShellAssumption DEF ShellInv, ShellTypeOK, services, shell, history
<1> DEFINE Kinds == [phase : {"unborn", "deciding", "executing", "over"},
                     on : Contexts, allow : BOOLEAN, under : Contexts]
<1>0. /\ click[k].on \in Contexts /\ click[k].allow \in BOOLEAN
      /\ click[k].under \in Contexts
      /\ Clicks # {} /\ MaxClicks \in Nat /\ 1 <= MaxClicks
  <2>1. click[k] \in Kinds
    OBVIOUS
  <2>2. \A kind \in Kinds :
           kind.on \in Contexts /\ kind.allow \in BOOLEAN /\ kind.under \in Contexts
    BY Zenon
  <2>3. Clicks # {} /\ MaxClicks \in Nat /\ 1 <= MaxClicks
    BY DEF Clicks
  <2> HIDE DEF Kinds
  <2> QED BY <2>1, <2>2, <2>3
<1>1. CASE Click(k)
  <2>1. active \in Contexts
    BY <1>1 DEF Click
  <2>2. ShellTypeOK'
    BY <1>1, <2>1 DEF Click
  <2> QED BY <1>1, <2>2, QuietStep DEF Click
<1>2. CASE Decided(k)
  <2>1. DecisionOf(k)
    BY <1>2 DEF Decided
  <2>2. Decision(click[k].on, click[k].allow) /\ AllowsLast' /\ allowedHere' \in SUBSET Contexts
        /\ allowedHere \subseteq allowedHere'
    BY <1>0, <2>1, DecidingKeepsAllows, Zenon DEF Allows
  <2>3. ExecuteFollowsItsAllow'
    <3>1. CASE UNCHANGED executes
      BY <2>2, <3>1 DEF Allows, ExecuteFollowsItsAllow
    <3>2. CASE /\ broker[click[k].on] = "pending" /\ click[k].allow
               /\ executes' = [executes EXCEPT ![click[k].on] = @ + 1]
      <4>1. executes[click[k].on] = 0
        BY <1>0, <3>2 DEF Allows, ExecuteFollowsItsAllow, AllowsLast
      <4>2. click[k].on \in allowedHere'
        BY <2>1, <3>2 DEF DecisionOf
      <4> QED BY <1>0, <2>2, <3>2, <4>1, <4>2 DEF Allows, ExecuteFollowsItsAllow
    <3> QED BY <1>2, <3>1, <3>2 DEF Decided
  <2>4. executes' \in [Contexts -> 0..MaxClicks]
    <3>1. \A c \in Contexts : executes'[c] \in Nat /\ executes'[c] <= 1
      BY <1>2, <2>3, <1>0 DEF Decided, ExecuteFollowsItsAllow
    <3>2. executes' \in [Contexts -> Nat]
      BY <1>2, <1>0 DEF Decided
    <3> QED BY <1>0, <3>1, <3>2
  <2>5. asked' \in SUBSET (Contexts \union {List})
    BY <1>0, <1>2 DEF Decided, Reloads
  <2>6. ShellTypeOK'
    <3>1. broker' \in [Contexts -> Statuses]
      BY <1>0, <2>2, DecisionSettles, Zenon
    <3>2. click' \in [Clicks -> Kinds]
      BY <1>2 DEF Decided
    <3> HIDE DEF Kinds
    <3>3. UNCHANGED <<stored, shell, run>>
      BY <1>2 DEF Decided
    <3> QED BY <2>2, <2>4, <2>5, <3>1, <3>2, <3>3, Zenon DEF Kinds
  <2> QED BY <2>2, <2>3, <2>6 DEF Allows
<1>3. CASE NotDecided(k)
  <2>1. /\ broker' \in [Contexts -> Statuses] /\ AllowsLast'
        /\ allowedHere' \in SUBSET Contexts /\ allowedHere \subseteq allowedHere'
    <3>1. CASE UNCHANGED <<broker, allowedHere>>
      BY <3>1 DEF Allows, AllowsLast
    <3>2. CASE DecisionOf(k)
      <4>1. /\ Decision(click[k].on, click[k].allow) /\ AllowsLast'
            /\ allowedHere' \in SUBSET Contexts /\ allowedHere \subseteq allowedHere'
        BY <1>0, <3>2, DecidingKeepsAllows, Zenon DEF Allows
      <4> QED BY <1>0, <4>1, DecisionSettles, Zenon
    <3> QED BY <1>3, <3>1, <3>2 DEF NotDecided
  <2>2. ShellTypeOK'
    BY <1>3, <2>1 DEF NotDecided
  <2> QED BY <1>3, <2>1, <2>2 DEF NotDecided, Allows, ExecuteFollowsItsAllow
<1>4. CASE Executed(k)
  <2>1. /\ broker' \in [Contexts -> Statuses]
        /\ \A d \in Contexts : broker[d] # "allowed" => broker'[d] = broker[d]
        /\ \A d \in Contexts : broker[d] = "allowed" => broker'[d] \in {"allowed", "ran"}
    BY <1>0, <1>4 DEF Executed, Statuses
  <2>2. asked' \in SUBSET (Contexts \union {List})
    BY <1>0, <1>4 DEF Executed, Reloads
  <2>3. ShellTypeOK'
    BY <1>4, <2>1, <2>2 DEF Executed
  <2> QED BY <1>4, <2>1, <2>3 DEF Executed, Allows, ExecuteFollowsItsAllow, AllowsLast
<1> QED BY <1>1, <1>2, <1>3, <1>4 DEF Decide

LEMMA OtherTabHolds ==
  ASSUME ShellInv, OtherTab
  PROVE  ShellInv'
<1> USE DEF ShellInv, ShellTypeOK, services, shell, history
<1>1. PICK c \in Contexts :
         \/ broker[c] = "pending" /\ \E allow \in BOOLEAN : Decision(c, allow)
         \/ broker[c] = "allowed" /\ broker' = [broker EXCEPT ![c] = "ran"]
  BY DEF OtherTab
<1>2. CASE broker[c] = "pending" /\ \E allow \in BOOLEAN : Decision(c, allow)
  <2>1. /\ broker' \in [Contexts -> Statuses]
        /\ \A d \in Contexts : broker[d] # "pending" => broker'[d] = broker[d]
    BY <1>2, DecisionSettles
  <2> QED BY <2>1 DEF OtherTab, Allows, ExecuteFollowsItsAllow, AllowsLast
<1>3. CASE broker[c] = "allowed" /\ broker' = [broker EXCEPT ![c] = "ran"]
  BY <1>3 DEF OtherTab, Allows, ExecuteFollowsItsAllow, AllowsLast, Statuses
<1> QED BY <1>1, <1>2, <1>3

LEMMA NextHolds == ShellInv /\ [Next]_vars => ShellInv'
<1> SUFFICES ASSUME ShellInv, [Next]_vars PROVE ShellInv'
  OBVIOUS
<1>1. CASE UNCHANGED vars
  BY <1>1 DEF ShellInv, ShellTypeOK, Allows, ExecuteFollowsItsAllow, AllowsLast,
              vars, services, shell, history
<1>2. CASE Next
  BY <1>2, QuietStepsHold, RunStepsHold, ClickStepsHold, OtherTabHolds DEF Next
<1> QED BY <1>1, <1>2

-----------------------------------------------------------------------------
(* ShellInv is an invariant of the surface.                                *)
THEOREM ShellInvariant == Spec => []ShellInv
  BY InitHolds, NextHolds, PTL DEF Spec

(* This tab has a request executed at most once, and only one that a click *)
(* of its own allowed: with any number of overlapping runs, of clicks on   *)
(* the same request, of lost answers and of decisions of other tabs.       *)
THEOREM OwnAllowsOnly == Spec => []ExecuteFollowsItsAllow
<1>1. ShellInv => ExecuteFollowsItsAllow
  BY DEF ShellInv, Allows
<1> QED BY ShellInvariant, <1>1, PTL

-----------------------------------------------------------------------------
(* The least and the greatest of a set of numbers. *)

LEMMA Least ==
  ASSUME NEW S \in SUBSET Nat, S # {}
  PROVE  \E m \in S : \A n \in S : m <= n
<1>1. PICK m \in S : \A n \in S : ~ (<<n, m>> \in OpToRel(<, Nat))
  BY NatLessThanWellFounded, WFMin
<1>2. \A n \in S : ~(n < m)
  BY <1>1 DEF OpToRel
<1> QED BY <1>2

LEMMA MaxOfTwo ==
  ASSUME NEW a \in Int, NEW b \in Int
  PROVE  Max({a, b}) \in {a, b} /\ Min({a, b}) \in {a, b}
<1>1. \E x \in {a, b} : \A y \in {a, b} : x >= y
  OBVIOUS
<1>2. \E x \in {a, b} : \A y \in {a, b} : x <= y
  OBVIOUS
<1> QED BY <1>1, <1>2 DEF Max, Min

-----------------------------------------------------------------------------
(* windows.filter(): what is left is what was there, in its order. *)

Filtering(f, w, id) ==
    f = [n \in 0 .. Len(w) |->
            IF n = 0 THEN <<>>
            ELSE IF w[n].id # id THEN Append(f[n - 1], w[n])
            ELSE f[n - 1]]

LEMMA FilterExists ==
  ASSUME NEW w \in Seq(Window), NEW id
  PROVE  \E f : Filtering(f, w, id)
<1> DEFINE Upto(f, m) ==
        f = [n \in 0 .. m |->
                IF n = 0 THEN <<>>
                ELSE IF w[n].id # id THEN Append(f[n - 1], w[n])
                ELSE f[n - 1]]
           Bad == {m \in Nat : ~ \E f : Upto(f, m)}
<1>1. ASSUME Bad # {} PROVE FALSE
  <2>1. PICK m \in Bad : \A n \in Bad : m <= n
    BY <1>1, Least
  <2>2. m # 0
    <3> DEFINE g == [n \in 0 .. 0 |-> <<>>]
    <3>1. \A n \in 0 .. 0 : <<>> = IF n = 0 THEN <<>>
                                   ELSE IF w[n].id # id THEN Append(g[n - 1], w[n])
                                   ELSE g[n - 1]
      <4>1. \A n \in 0 .. 0 : n = 0
        OBVIOUS
      <4> QED BY <4>1, Zenon
    <3>2. Upto(g, 0)
      BY <3>1, Zenon
    <3> QED BY <3>2
  <2>3. m - 1 \in Nat /\ m - 1 \notin Bad
    <3>1. m \in Nat
      OBVIOUS
    <3> HIDE DEF Bad
    <3>2. ~(m <= m - 1) /\ m - 1 \in Nat
      BY <2>2, <3>1
    <3> QED BY <2>1, <3>2
  <2>4. PICK f : Upto(f, m - 1)
    BY <2>3
  <2> DEFINE next == IF w[m].id # id THEN Append(f[m - 1], w[m]) ELSE f[m - 1]
             g == [n \in 0 .. m |-> IF n = m THEN next ELSE f[n]]
  <2>5. Upto(g, m)
    <3>1. \A n \in 0 .. m : g[n] = IF n = 0 THEN <<>>
                                   ELSE IF w[n].id # id THEN Append(g[n - 1], w[n])
                                   ELSE g[n - 1]
      <4>1. \A n \in 0 .. (m - 1) : g[n] = f[n]
        BY <2>1
      <4>2. \A n \in 0 .. (m - 1) :
                f[n] = IF n = 0 THEN <<>>
                       ELSE IF w[n].id # id THEN Append(f[n - 1], w[n])
                       ELSE f[n - 1]
        BY <2>4, Zenon
      <4>3. g[m] = next /\ m - 1 \in 0 .. (m - 1)
        BY <2>3
      <4> HIDE DEF g
      <4>4. TAKE n \in 0 .. m
      <4>5. CASE n = m
        BY <2>2, <4>1, <4>3, <4>5
      <4>6. CASE n # m
        <5>1. n \in 0 .. (m - 1) /\ (n # 0 => n - 1 \in 0 .. (m - 1))
          BY <2>3, <4>6
        <5> QED BY <4>1, <4>2, <5>1
      <4> QED BY <4>5, <4>6
    <3>2. g = [n \in 0 .. m |-> g[n]]
      OBVIOUS
    <3> HIDE DEF g
    <3> QED BY <3>1, <3>2
  <2> QED BY <2>1, <2>5
<1>2. Len(w) \in Nat
  OBVIOUS
<1> QED BY <1>1, <1>2 DEF Filtering

(* The positions of what the first n windows leave. *)
Kept(f, w, n) ==
    /\ f[n] \in Seq(Window)
    /\ \E at \in [DOMAIN f[n] -> 1 .. n] :
        /\ \A i, j \in DOMAIN f[n] : i # j => at[i] # at[j]
        /\ \A i \in DOMAIN f[n] : f[n][i] = w[at[i]]

LEMMA FilterKeeps ==
  ASSUME NEW w \in Seq(Window), NEW id, NEW f, Filtering(f, w, id)
  PROVE  \A n \in 0 .. Len(w) : Kept(f, w, n)
<1> DEFINE Bad == {n \in 0 .. Len(w) : ~Kept(f, w, n)}
<1>1. ASSUME Bad # {} PROVE FALSE
  <2>1. PICK n \in Bad : \A k \in Bad : n <= k
    <3>1. Bad \in SUBSET Nat
      OBVIOUS
    <3> HIDE DEF Bad
    <3> QED BY <1>1, <3>1, Least
  <2>2. n \in 0 .. Len(w) /\ ~Kept(f, w, n)
    OBVIOUS
  <2>3. f[n] = IF n = 0 THEN <<>>
               ELSE IF w[n].id # id THEN Append(f[n - 1], w[n]) ELSE f[n - 1]
    BY <2>2 DEF Filtering
  <2>4. CASE n = 0
    <3>1. f[n] = <<>>
      BY <2>3, <2>4
    <3>2. f[n] \in Seq(Window) /\ DOMAIN f[n] = {}
      BY <3>1
    <3>3. PICK at : at = [i \in DOMAIN f[n] |-> n]
      OBVIOUS
    <3>4. at \in [DOMAIN f[n] -> 1 .. n]
      BY <3>2, <3>3
    <3> QED BY <2>2, <3>2, <3>4 DEF Kept
  <2>5. CASE n # 0
    <3> DEFINE s == f[n - 1]
    <3>1. n - 1 \in 0 .. Len(w) /\ n \in 1 .. Len(w)
      BY <2>2, <2>5
    <3>2. Kept(f, w, n - 1)
      BY <2>1, <3>1
    <3>3. s \in Seq(Window)
      BY <3>2 DEF Kept
    <3>4. PICK at \in [DOMAIN s -> 1 .. (n - 1)] :
             /\ \A i, j \in DOMAIN s : i # j => at[i] # at[j]
             /\ \A i \in DOMAIN s : s[i] = w[at[i]]
      BY <3>2 DEF Kept
    <3> HIDE DEF s
    <3>5. CASE w[n].id = id
      <4>1. f[n] = s
        BY <2>3, <2>5, <3>5 DEF s
      <4>2. at \in [DOMAIN s -> 1 .. n]
        BY <3>1, <3>4
      <4> QED BY <2>2, <3>3, <3>4, <4>1, <4>2 DEF Kept
    <3>6. CASE w[n].id # id
      <4>1. f[n] = Append(s, w[n])
        BY <2>3, <2>5, <3>6 DEF s
      <4>2. w[n] \in Window
        BY <3>1
      <4>3. /\ Append(s, w[n]) \in Seq(Window)
            /\ DOMAIN Append(s, w[n]) = 1 .. (Len(s) + 1)
            /\ DOMAIN s = 1 .. Len(s) /\ Len(s) \in Nat
            /\ \A i \in 1 .. Len(s) : Append(s, w[n])[i] = s[i]
            /\ Append(s, w[n])[Len(s) + 1] = w[n]
        BY <3>3, <4>2
      <4> DEFINE to == [i \in 1 .. (Len(s) + 1) |-> IF i = Len(s) + 1 THEN n ELSE at[i]]
      <4>4. /\ to \in [1 .. (Len(s) + 1) -> 1 .. n]
            /\ \A i \in 1 .. Len(s) : to[i] = at[i] /\ at[i] \in 1 .. (n - 1)
            /\ to[Len(s) + 1] = n
        <5>1. \A i \in 1 .. Len(s) : at[i] \in 1 .. (n - 1) /\ i # Len(s) + 1
          BY <3>4, <4>3
        <5>2. \A i \in 1 .. (Len(s) + 1) : i = Len(s) + 1 \/ i \in 1 .. Len(s)
          BY <4>3
        <5>3. \A i \in 1 .. (n - 1) : i \in 1 .. n
          BY <3>1
        <5>4. n \in 1 .. n /\ Len(s) + 1 \in 1 .. (Len(s) + 1)
          BY <3>1, <4>3
        <5>5. \A i \in 1 .. Len(s) : i \in 1 .. (Len(s) + 1)
          BY <4>3
        <5> QED BY <5>1, <5>2, <5>3, <5>4, <5>5
      <4> HIDE DEF to
      <4>5. \A i, j \in 1 .. (Len(s) + 1) : i # j => to[i] # to[j]
        <5>1. \A i \in 1 .. (Len(s) + 1) : i = Len(s) + 1 \/ i \in 1 .. Len(s)
          BY <4>3
        <5>2. \A i \in 1 .. Len(s) : to[i] # n
          BY <3>1, <4>4
        <5> SUFFICES ASSUME NEW i \in 1 .. (Len(s) + 1), NEW j \in 1 .. (Len(s) + 1),
                            i # j
                     PROVE  to[i] # to[j]
          OBVIOUS
        <5>3. CASE i \in 1 .. Len(s) /\ j \in 1 .. Len(s)
          <6>1. at[i] # at[j] /\ to[i] = at[i] /\ to[j] = at[j]
            BY <3>4, <4>3, <4>4, <5>3
          <6> QED BY <6>1
        <5>4. CASE i \in 1 .. Len(s) /\ j = Len(s) + 1
          BY <4>4, <5>2, <5>4
        <5>5. CASE i = Len(s) + 1 /\ j \in 1 .. Len(s)
          BY <4>4, <5>2, <5>5
        <5> QED BY <5>1, <5>3, <5>4, <5>5
      <4>6. \A i \in 1 .. (Len(s) + 1) : Append(s, w[n])[i] = w[to[i]]
        <5>1. \A i \in 1 .. (Len(s) + 1) : i = Len(s) + 1 \/ i \in 1 .. Len(s)
          BY <4>3
        <5>2. ASSUME NEW i \in 1 .. Len(s) PROVE Append(s, w[n])[i] = w[to[i]]
          <6>1. s[i] = w[at[i]] /\ to[i] = at[i] /\ Append(s, w[n])[i] = s[i]
            BY <3>4, <4>3, <4>4
          <6> QED BY <6>1
        <5> QED BY <4>3, <4>4, <5>1, <5>2
      <4>7. Kept(f, w, n)
        <5> DEFINE t == Append(s, w[n])
        <5>1. t \in Seq(Window) /\ DOMAIN t = 1 .. (Len(s) + 1)
          BY <4>3
        <5>2. /\ to \in [DOMAIN t -> 1 .. n]
              /\ \A i, j \in DOMAIN t : i # j => to[i] # to[j]
              /\ \A i \in DOMAIN t : t[i] = w[to[i]]
          BY <4>4, <4>5, <4>6, <5>1
        <5> HIDE DEF t
        <5> QED BY <4>1, <5>1, <5>2 DEF Kept, t
      <4> QED BY <2>2, <4>7
    <3> QED BY <3>5, <3>6
  <2> QED BY <2>4, <2>5
<1> QED BY <1>1

LEMMA CloseFilters ==
  ASSUME NEW s \in WindowsState, NEW id
  PROVE  \E f : /\ Filtering(f, s.windows, id)
                /\ Close(s, id) = [s EXCEPT !.windows = f[Len(s.windows)]]
<1> DEFINE f == CHOOSE g : Filtering(g, s.windows, id)
<1>1. Filtering(f, s.windows, id)
  BY FilterExists DEF WindowsState
<1>2. Close(s, id) = [s EXCEPT !.windows = f[Len(s.windows)]]
  BY Zenon DEF Close, Filtering
<1> QED BY <1>1, <1>2

LEMMA CloseStacked ==
  ASSUME NEW s \in WindowsState, Stacked(s), NEW id
  PROVE  Close(s, id) \in WindowsState /\ Stacked(Close(s, id))
<1>1. PICK f : /\ Filtering(f, s.windows, id)
               /\ Close(s, id) = [s EXCEPT !.windows = f[Len(s.windows)]]
  BY CloseFilters
<1> DEFINE w == f[Len(s.windows)]
           t == Close(s, id)
<1>2. s.windows \in Seq(Window) /\ s.nextZ \in Nat
  BY DEF WindowsState
<1>3. Kept(f, s.windows, Len(s.windows))
  BY <1>1, <1>2, FilterKeeps
<1>4. t.windows = w /\ t.nextZ = s.nextZ /\ t \in WindowsState
  BY <1>1, <1>2, <1>3 DEF WindowsState, Kept
<1>5. PICK at \in [DOMAIN w -> 1 .. Len(s.windows)] :
         /\ \A i, j \in DOMAIN w : i # j => at[i] # at[j]
         /\ \A i \in DOMAIN w : w[i] = s.windows[at[i]]
  BY <1>3 DEF Kept
<1>6. DOMAIN s.windows = 1 .. Len(s.windows)
  BY <1>2
<1> HIDE DEF w, t
<1>7. Stacked(t)
  BY <1>4, <1>5, <1>6 DEF Stacked
<1> QED BY <1>4, <1>7 DEF t

-----------------------------------------------------------------------------
(* The other cases of the reducer. *)

(* Windows that are changed in place, but for their heights. *)
LEMMA ChangedInPlace ==
  ASSUME NEW s \in WindowsState, NEW f, NEW z \in Nat,
         f \in [DOMAIN s.windows -> Window]
  PROVE  /\ [s EXCEPT !.windows = f] \in WindowsState
         /\ [nextZ |-> z, windows |-> f] \in WindowsState
<1>1. s.windows \in Seq(Window)
  BY DEF WindowsState
<1>2. DOMAIN s.windows = 1 .. Len(s.windows) /\ Len(s.windows) \in Nat
  BY <1>1
<1>3. f \in Seq(Window)
  BY <1>2
<1> QED BY <1>3 DEF WindowsState

LEMMA SameStack ==
  ASSUME NEW s \in WindowsState, NEW f, Stacked(s),
         f \in [DOMAIN s.windows -> Window],
         \A i \in DOMAIN s.windows :
            f[i].id = s.windows[i].id /\ f[i].z = s.windows[i].z
  PROVE  [s EXCEPT !.windows = f] \in WindowsState /\ Stacked([s EXCEPT !.windows = f])
<1> DEFINE t == [s EXCEPT !.windows = f]
<1>1. t \in WindowsState /\ t.windows = f /\ t.nextZ = s.nextZ
  BY ChangedInPlace DEF WindowsState
<1>2. DOMAIN f = DOMAIN s.windows
  OBVIOUS
<1> HIDE DEF t
<1>3. \A i \in DOMAIN f : f[i].z <= s.nextZ
  BY <1>2 DEF Stacked
<1>4. ASSUME NEW i \in DOMAIN f, NEW j \in DOMAIN f, i # j
      PROVE  f[i].id # f[j].id /\ f[i].z # f[j].z
  BY <1>2, <1>4 DEF Stacked
<1>5. \A i, j \in DOMAIN f : i # j => f[i].id # f[j].id /\ f[i].z # f[j].z
  BY <1>4
<1>6. Stacked(t)
  BY <1>1, <1>3, <1>5 DEF Stacked
<1> QED BY <1>1, <1>6 DEF t

(* One window is brought on top. *)
LEMMA OneOnTop ==
  ASSUME NEW s \in WindowsState, NEW id, NEW f, Stacked(s),
         f \in [DOMAIN s.windows -> Window],
         \A i \in DOMAIN s.windows :
            /\ f[i].id = s.windows[i].id
            /\ f[i].z = IF s.windows[i].id = id THEN TopZ(s) ELSE s.windows[i].z
  PROVE  LET t == [nextZ |-> TopZ(s), windows |-> f]
         IN  t \in WindowsState /\ Stacked(t)
<1> DEFINE t == [nextZ |-> TopZ(s), windows |-> f]
<1>1. s.nextZ \in Nat /\ s.windows \in Seq(Window)
  BY DEF WindowsState
<1>2. TopZ(s) \in Nat /\ TopZ(s) > s.nextZ
  BY <1>1 DEF TopZ
<1>3. t \in WindowsState /\ t.windows = f /\ t.nextZ = TopZ(s)
  BY <1>2, ChangedInPlace
<1>4. DOMAIN f = DOMAIN s.windows
  OBVIOUS
<1>5. \A i \in DOMAIN s.windows : s.windows[i].z \in Nat /\ s.windows[i].z < TopZ(s)
  <2>1. \A i \in DOMAIN s.windows : s.windows[i] \in Window
    BY <1>1
  <2>2. \A i \in DOMAIN s.windows : s.windows[i].z \in Nat
    BY <2>1 DEF Window
  <2> QED BY <1>1, <1>2, <2>2 DEF Stacked
<1> HIDE DEF t
<1>6. Stacked(t)
  <2>1. \A i \in DOMAIN f : f[i].z <= TopZ(s)
    BY <1>2, <1>4, <1>5
  <2>2. ASSUME NEW i \in DOMAIN f, NEW j \in DOMAIN f, i # j
        PROVE  f[i].id # f[j].id /\ f[i].z # f[j].z
    <3>1. s.windows[i].id # s.windows[j].id /\ s.windows[i].z # s.windows[j].z
      BY <1>4, <2>2 DEF Stacked
    <3>2. /\ f[i].id = s.windows[i].id /\ f[j].id = s.windows[j].id
          /\ f[i].z = IF s.windows[i].id = id THEN TopZ(s) ELSE s.windows[i].z
          /\ f[j].z = IF s.windows[j].id = id THEN TopZ(s) ELSE s.windows[j].z
      BY <1>4
    <3>3. s.windows[i].z < TopZ(s) /\ s.windows[j].z < TopZ(s)
          /\ s.windows[i].z \in Nat /\ s.windows[j].z \in Nat
      BY <1>4, <1>5
    <3> QED BY <1>2, <3>1, <3>2, <3>3
  <2>3. \A i, j \in DOMAIN f : i # j => f[i].id # f[j].id /\ f[i].z # f[j].z
    BY <2>2
  <2> QED BY <1>3, <2>1, <2>3 DEF Stacked
<1> QED BY <1>3, <1>6 DEF t

LEMMA EachIsAWindow ==
  ASSUME NEW s \in WindowsState
  PROVE  \A i \in DOMAIN s.windows : s.windows[i] \in Window
<1>1. s.windows \in Seq(Window)
  BY DEF WindowsState
<1> QED BY <1>1

LEMMA RaiseStacked ==
  ASSUME NEW s \in WindowsState, Stacked(s), NEW id
  PROVE  Raise(s, id) \in WindowsState /\ Stacked(Raise(s, id))
<1> DEFINE f == [i \in DOMAIN s.windows |->
                    IF s.windows[i].id = id
                    THEN [s.windows[i] EXCEPT !.z = TopZ(s), !.minimized = FALSE]
                    ELSE s.windows[i]]
<1>1. TopZ(s) \in Nat
  BY DEF TopZ, WindowsState
<1>2. ASSUME NEW i \in DOMAIN s.windows
      PROVE  /\ f[i] \in Window /\ f[i].id = s.windows[i].id
             /\ f[i].z = IF s.windows[i].id = id THEN TopZ(s) ELSE s.windows[i].z
  BY <1>1, EachIsAWindow DEF Window
<1>3. Raise(s, id) = [nextZ |-> TopZ(s), windows |-> f]
  BY Zenon DEF Raise
<1>4. f \in [DOMAIN s.windows -> Window]
  BY <1>2
<1> HIDE DEF f
<1> QED BY <1>2, <1>3, <1>4, OneOnTop

LEMMA FocusStacked ==
  ASSUME NEW s \in WindowsState, Stacked(s), NEW id
  PROVE  Focus(s, id) \in WindowsState /\ Stacked(Focus(s, id))
  BY RaiseStacked DEF Focus

LEMMA OpenStacked ==
  ASSUME NEW s \in WindowsState, Stacked(s), NEW id \in WindowIds, NEW at \in Geometry
  PROVE  Open(s, id, at) \in WindowsState /\ Stacked(Open(s, id, at))
<1>1. CASE IsOpen(s, id)
  BY <1>1, RaiseStacked DEF Open
<1>2. CASE ~IsOpen(s, id)
  <2> DEFINE new == [id |-> id, at |-> at, z |-> TopZ(s), minimized |-> FALSE,
                     maximized |-> FALSE, restore |-> NoRestore]
             w == Append(s.windows, new)
             t == [nextZ |-> TopZ(s), windows |-> w]
  <2>1. Open(s, id, at) = t
    BY <1>2, Zenon DEF Open
  <2>2. s.nextZ \in Nat /\ s.windows \in Seq(Window) /\ TopZ(s) = s.nextZ + 1
    BY DEF WindowsState, TopZ
  <2>3. new \in Window /\ new.id = id /\ new.z = TopZ(s)
    BY <2>2 DEF Window, Geometry, NoRestore
  <2> HIDE DEF new
  <2>4. /\ w \in Seq(Window)
        /\ DOMAIN w = 1 .. (Len(s.windows) + 1)
        /\ DOMAIN s.windows = 1 .. Len(s.windows) /\ Len(s.windows) \in Nat
        /\ \A i \in 1 .. Len(s.windows) : w[i] = s.windows[i]
        /\ w[Len(s.windows) + 1] = new
    BY <2>2, <2>3
  <2>5. t \in WindowsState /\ t.windows = w /\ t.nextZ = TopZ(s)
    BY <2>2, <2>4 DEF WindowsState
  <2>6. \A i \in DOMAIN s.windows : /\ s.windows[i].z \in Nat /\ s.windows[i].z <= s.nextZ
                                    /\ s.windows[i].id # id
    BY <1>2, EachIsAWindow DEF Window, Stacked, IsOpen, IdsOf
  <2> HIDE DEF w, t
  <2>7. \A i \in DOMAIN w : i \in DOMAIN s.windows \/ i = Len(s.windows) + 1
    BY <2>4
  <2>8. \A i \in DOMAIN w : w[i].z <= TopZ(s)
    BY <2>2, <2>3, <2>4, <2>6, <2>7
  <2>9. ASSUME NEW i \in DOMAIN w, NEW j \in DOMAIN w, i # j
        PROVE  w[i].id # w[j].id /\ w[i].z # w[j].z
    <3>1. CASE i \in DOMAIN s.windows /\ j \in DOMAIN s.windows
      <4>1. w[i] = s.windows[i] /\ w[j] = s.windows[j]
        BY <2>4, <3>1
      <4> QED BY <2>9, <3>1, <4>1 DEF Stacked
    <3>2. CASE i \in DOMAIN s.windows /\ j = Len(s.windows) + 1
      <4>1. w[i] = s.windows[i] /\ w[j] = new
        BY <2>4, <3>2
      <4> QED BY <2>2, <2>3, <2>6, <3>2, <4>1
    <3>3. CASE j \in DOMAIN s.windows /\ i = Len(s.windows) + 1
      <4>1. w[j] = s.windows[j] /\ w[i] = new
        BY <2>4, <3>3
      <4> QED BY <2>2, <2>3, <2>6, <3>3, <4>1
    <3> QED BY <2>7, <2>9, <3>1, <3>2, <3>3
  <2> QED BY <2>1, <2>5, <2>8, <2>9 DEF Stacked
<1> QED BY <1>1, <1>2

LEMMA ToggleStacked ==
  ASSUME NEW s \in WindowsState, Stacked(s), NEW id, NEW view \in Int
  PROVE  /\ ToggleMaximize(s, id, view) \in WindowsState
         /\ Stacked(ToggleMaximize(s, id, view))
<1> DEFINE f == [i \in DOMAIN s.windows |->
                    IF s.windows[i].id # id THEN s.windows[i]
                    ELSE IF s.windows[i].maximized
                    THEN [s.windows[i] EXCEPT !.at = s.windows[i].restore,
                                              !.maximized = FALSE, !.z = TopZ(s)]
                    ELSE [s.windows[i] EXCEPT !.restore = s.windows[i].at,
                                              !.at = Maximized(view),
                                              !.maximized = TRUE, !.z = TopZ(s)]]
<1>1. TopZ(s) \in Nat /\ Maximized(view) \in Geometry
  BY DEF TopZ, WindowsState, Maximized, Geometry, ChromeLeft, ChromeRight
<1>2. ASSUME NEW i \in DOMAIN s.windows
      PROVE  /\ f[i] \in Window /\ f[i].id = s.windows[i].id
             /\ f[i].z = IF s.windows[i].id = id THEN TopZ(s) ELSE s.windows[i].z
  BY <1>1, EachIsAWindow DEF Window
<1>3. ToggleMaximize(s, id, view) = [nextZ |-> TopZ(s), windows |-> f]
  BY Zenon DEF ToggleMaximize
<1>4. f \in [DOMAIN s.windows -> Window]
  BY <1>2
<1> HIDE DEF f
<1> QED BY <1>2, <1>3, <1>4, OneOnTop

LEMMA MoveStacked ==
  ASSUME NEW s \in WindowsState, Stacked(s), NEW id, NEW x \in Int
  PROVE  Move(s, id, x) \in WindowsState /\ Stacked(Move(s, id, x))
<1> DEFINE f == [i \in DOMAIN s.windows |->
                    IF s.windows[i].id = id THEN [s.windows[i] EXCEPT !.at.x = x]
                    ELSE s.windows[i]]
<1>1. ASSUME NEW i \in DOMAIN s.windows
      PROVE  f[i] \in Window /\ f[i].id = s.windows[i].id /\ f[i].z = s.windows[i].z
  BY EachIsAWindow DEF Window, Geometry
<1>2. Move(s, id, x) = [s EXCEPT !.windows = f]
  BY Zenon DEF Move
<1>3. f \in [DOMAIN s.windows -> Window]
  BY <1>1
<1> HIDE DEF f
<1> QED BY <1>1, <1>2, <1>3, SameStack

LEMMA ResizeStacked ==
  ASSUME NEW s \in WindowsState, Stacked(s), NEW id, NEW width \in Int
  PROVE  Resize(s, id, width) \in WindowsState /\ Stacked(Resize(s, id, width))
<1> DEFINE wide == Max({MinWidth, width})
           f == [i \in DOMAIN s.windows |->
                    IF s.windows[i].id = id THEN [s.windows[i] EXCEPT !.at.width = wide]
                    ELSE s.windows[i]]
<1>1. wide \in Int
  <2>1. MinWidth \in Int
    BY DEF MinWidth
  <2> QED BY <2>1, MaxOfTwo
<1>2. Resize(s, id, width) = [s EXCEPT !.windows = f]
  BY Zenon DEF Resize
<1> HIDE DEF wide
<1>3. ASSUME NEW i \in DOMAIN s.windows
      PROVE  f[i] \in Window /\ f[i].id = s.windows[i].id /\ f[i].z = s.windows[i].z
  BY <1>1, EachIsAWindow DEF Window, Geometry
<1>4. f \in [DOMAIN s.windows -> Window]
  BY <1>3
<1> HIDE DEF f
<1> QED BY <1>2, <1>3, <1>4, SameStack

LEMMA MinimizeStacked ==
  ASSUME NEW s \in WindowsState, Stacked(s), NEW id
  PROVE  Minimize(s, id) \in WindowsState /\ Stacked(Minimize(s, id))
<1> DEFINE f == [i \in DOMAIN s.windows |->
                    IF s.windows[i].id = id THEN [s.windows[i] EXCEPT !.minimized = TRUE]
                    ELSE s.windows[i]]
<1>1. ASSUME NEW i \in DOMAIN s.windows
      PROVE  f[i] \in Window /\ f[i].id = s.windows[i].id /\ f[i].z = s.windows[i].z
  BY EachIsAWindow DEF Window
<1>2. Minimize(s, id) = [s EXCEPT !.windows = f]
  BY Zenon DEF Minimize
<1>3. f \in [DOMAIN s.windows -> Window]
  BY <1>1
<1> HIDE DEF f
<1> QED BY <1>1, <1>2, <1>3, SameStack

LEMMA AllMinimizedStacked ==
  ASSUME NEW s \in WindowsState, Stacked(s), NEW yes \in BOOLEAN
  PROVE  AllMinimized(s, yes) \in WindowsState /\ Stacked(AllMinimized(s, yes))
<1> DEFINE f == [i \in DOMAIN s.windows |-> [s.windows[i] EXCEPT !.minimized = yes]]
<1>1. ASSUME NEW i \in DOMAIN s.windows
      PROVE  f[i] \in Window /\ f[i].id = s.windows[i].id /\ f[i].z = s.windows[i].z
  BY EachIsAWindow DEF Window
<1>2. AllMinimized(s, yes) = [s EXCEPT !.windows = f]
  BY Zenon DEF AllMinimized
<1>3. f \in [DOMAIN s.windows -> Window]
  BY <1>1
<1> HIDE DEF f
<1> QED BY <1>1, <1>2, <1>3, SameStack

LEMMA ClampIsInt ==
  ASSUME NEW x \in Int, NEW width \in Int, NEW view \in Int
  PROVE  ClampX(x, width, view) \in Int
<1> DEFINE right == ChromeLeft - width + KeepVisible
           left == view - KeepVisible
<1>1. right \in Int /\ left \in Int
  BY DEF ChromeLeft, KeepVisible
<1>2. ClampX(x, width, view) = Min({Max({x, right}), left})
  BY DEF ClampX
<1> HIDE DEF right, left
<1>3. Max({x, right}) \in Int
  BY <1>1, MaxOfTwo
<1> QED BY <1>1, <1>2, <1>3, MaxOfTwo

LEMMA PulledBackStacked ==
  ASSUME NEW s \in WindowsState, Stacked(s), NEW ids, NEW view \in Int
  PROVE  PulledBack(s, ids, view) \in WindowsState /\ Stacked(PulledBack(s, ids, view))
<1> DEFINE f == [i \in DOMAIN s.windows |->
                    IF s.windows[i].id \in ids
                    THEN [s.windows[i] EXCEPT !.at.x = ClampX(@, s.windows[i].at.width, view)]
                    ELSE s.windows[i]]
<1>1. ASSUME NEW i \in DOMAIN s.windows
      PROVE  f[i] \in Window /\ f[i].id = s.windows[i].id /\ f[i].z = s.windows[i].z
  <2> DEFINE w == s.windows[i]
             x == ClampX(w.at.x, w.at.width, view)
  <2>1. w \in Window /\ w.at.x \in Int /\ w.at.width \in Int
    BY EachIsAWindow DEF Window, Geometry
  <2>2. x \in Int
    BY <2>1, ClampIsInt
  <2>3. f[i] = IF w.id \in ids THEN [w EXCEPT !.at.x = x] ELSE w
    OBVIOUS
  <2> HIDE DEF w, x, f
  <2>4. f[i] \in Window /\ f[i].id = w.id /\ f[i].z = w.z
    BY <2>1, <2>2, <2>3 DEF Window, Geometry
  <2> QED BY <2>4 DEF w
<1>2. PulledBack(s, ids, view) = [s EXCEPT !.windows = f]
  BY Zenon DEF PulledBack
<1>3. f \in [DOMAIN s.windows -> Window]
  BY <1>1
<1> HIDE DEF f
<1> QED BY <1>1, <1>2, <1>3, SameStack

LEMMA CascadeIsGeometry ==
  ASSUME NEW count \in Nat, NEW id \in WindowIds, NEW view \in Int
  PROVE  Cascade(count, id, view) \in Geometry
<1>1. DefaultWidth(id) \in Int
  BY DEF DefaultWidth, WindowIds, Only, ContextWindow
<1> DEFINE far == view - DefaultWidth(id) - ChromeRight
           near == ChromeLeft + 24 + (count % 6) * 26
<1>2. far \in Int /\ near \in Int /\ ChromeLeft \in Int
  BY <1>1 DEF ChromeLeft, ChromeRight
<1>3. Cascade(count, id, view) = [x |-> Min({near, Max({ChromeLeft, far})}),
                                  width |-> DefaultWidth(id)]
  BY DEF Cascade
<1> HIDE DEF far, near
<1>4. Max({ChromeLeft, far}) \in Int
  BY <1>2, MaxOfTwo
<1>5. Min({near, Max({ChromeLeft, far})}) \in Int
  BY <1>2, <1>4, MaxOfTwo
<1> QED BY <1>1, <1>3, <1>5 DEF Geometry

(* Math.ceil(Math.sqrt(n)) is a number of columns. *)
LEMMA ColumnsArePositive ==
  ASSUME NEW n \in Nat \ {0}
  PROVE  Columns(n) \in Nat \ {0}
<1> DEFINE Enough == {c \in 1 .. n : c * c >= n}
<1>1. n \in Enough
  <2>1. n >= 1
    OBVIOUS
  <2>2. n * n >= n
    BY <2>1
  <2> QED BY <2>2
<1>2. PICK c \in Enough : \A d \in Enough : c <= d
  <2>1. Enough \in SUBSET Nat /\ Enough # {}
    <3>1. \A c \in 1 .. n : c \in Nat
      OBVIOUS
    <3>2. Enough \in SUBSET Nat
      BY <3>1, Zenon
    <3>3. Enough # {}
      <4> HIDE DEF Enough
      <4> QED BY <1>1
    <3> QED BY <3>2, <3>3
  <2> HIDE DEF Enough
  <2> QED BY <2>1, Least
<1>3. c \in 1 .. n /\ c * c >= n
  OBVIOUS
<1>4. (c - 1) * (c - 1) < n
  <2>1. CASE c = 1
    BY <2>1
  <2>2. CASE c # 1
    <3>1. c - 1 \in 1 .. n /\ ~(c <= c - 1)
      BY <1>3, <2>2
    <3>2. c - 1 \notin Enough
      <4> HIDE DEF Enough
      <4> QED BY <1>2, <3>1
    <3>3. ~((c - 1) * (c - 1) >= n)
      BY <3>1, <3>2
    <3>4. (c - 1) * (c - 1) \in Int
      BY <3>1
    <3> QED BY <3>3, <3>4
  <2> QED BY <2>1, <2>2
<1>5. Columns(n) \in 1 .. n
  BY <1>3, <1>4 DEF Columns
<1> QED BY <1>5

LEMMA TileStacked ==
  ASSUME NEW s \in WindowsState, Stacked(s), NEW view \in Int,
         \E i \in DOMAIN s.windows : ~s.windows[i].minimized
  PROVE  Tile(s, view) \in WindowsState /\ Stacked(Tile(s, view))
<1> DEFINE visible == {i \in DOMAIN s.windows : ~s.windows[i].minimized}
           columns == Columns(Cardinality(visible))
           cell == (view - ChromeLeft - ChromeRight) \div columns
           column(i) == Cardinality({j \in visible : j < i}) % columns
           placed(i) == [x |-> ChromeLeft + column(i) * cell,
                         width |-> Max({MinWidth, cell - 8})]
           f == [i \in DOMAIN s.windows |->
                    IF i \in visible
                    THEN [s.windows[i] EXCEPT !.at = placed(i), !.maximized = FALSE]
                    ELSE s.windows[i]]
<1>1. s.windows \in Seq(Window) /\ DOMAIN s.windows = 1 .. Len(s.windows)
      /\ Len(s.windows) \in Nat
  <2>1. s.windows \in Seq(Window)
    BY DEF WindowsState
  <2> QED BY <2>1
<1>2. IsFiniteSet(visible) /\ visible # {}
  <2>1. IsFiniteSet(1 .. Len(s.windows))
    BY <1>1, FS_Interval
  <2>2. visible \subseteq 1 .. Len(s.windows)
    BY <1>1
  <2> QED BY <2>1, <2>2, FS_Subset
<1>3. columns \in Nat \ {0}
  <2> HIDE DEF visible
  <2>1. Cardinality(visible) \in Nat \ {0}
    BY <1>2, FS_CardinalityType, FS_EmptySet
  <2> QED BY <2>1, ColumnsArePositive
<1>4. cell \in Int
  <2> HIDE DEF columns
  <2> QED BY <1>3 DEF ChromeLeft, ChromeRight
<1>5. ASSUME NEW i PROVE placed(i) \in Geometry
  <2>1. Cardinality({j \in visible : j < i}) \in Nat
    <3>1. {j \in visible : j < i} \subseteq visible
      OBVIOUS
    <3> HIDE DEF visible
    <3> QED BY <1>2, <3>1, FS_Subset, FS_CardinalityType
  <2>2. column(i) \in Nat
    <3> HIDE DEF columns, visible
    <3> QED BY <1>3, <2>1
  <2>3. Max({MinWidth, cell - 8}) \in Int
    <3> HIDE DEF cell
    <3>1. MinWidth \in Int /\ cell - 8 \in Int
      BY <1>4 DEF MinWidth
    <3> QED BY <3>1, MaxOfTwo
  <2>4. ChromeLeft + column(i) * cell \in Int
    <3> HIDE DEF column, cell
    <3> QED BY <1>4, <2>2 DEF ChromeLeft
  <2> QED BY <2>3, <2>4 DEF Geometry
<1>6. Tile(s, view) = [s EXCEPT !.windows = f]
  BY Zenon DEF Tile
<1> HIDE DEF placed, visible
<1>7. ASSUME NEW i \in DOMAIN s.windows
      PROVE  f[i] \in Window /\ f[i].id = s.windows[i].id /\ f[i].z = s.windows[i].z
  BY <1>5, EachIsAWindow DEF Window
<1>8. f \in [DOMAIN s.windows -> Window]
  BY <1>7
<1> HIDE DEF f
<1> QED BY <1>6, <1>7, <1>8, SameStack

Opens == {"listThenRun", "listThenOpen"}
Makes == {"create", "crystallize", "instantiate"}

(* A plan that begins with none of the calls that need its context made.   *)
Begun(calls, first) ==
  /\ calls \in Seq(CallNames) /\ calls # <<>> /\ Planned(calls)
  /\ Head(calls) = first /\ first \notin Opens \union {"run"}

LEMMA PlannedOne ==
  ASSUME NEW a \in CallNames \ (Opens \union {"run"}) PROVE Begun(<<a>>, a)
<1> DEFINE s == <<a>>
<1>1. s \in Seq(CallNames) /\ s # <<>> /\ Head(s) = a /\ DOMAIN s = 1 .. 1 /\ s[1] = a
  OBVIOUS
<1> HIDE DEF s
<1>2. Planned(s)
  BY <1>1 DEF Planned, Opens
<1> QED BY <1>1, <1>2 DEF Begun, s

LEMMA PlannedTwo ==
  ASSUME NEW a \in CallNames \ (Opens \union {"run"}), NEW b \in CallNames \ {"listThenRun", "run"},
         b = "listThenOpen" => a \in Makes
  PROVE Begun(<<a, b>>, a)
<1> DEFINE s == <<a, b>>
<1>1. s \in Seq(CallNames) /\ s # <<>> /\ Head(s) = a /\ DOMAIN s = 1 .. 2 /\ s[1] = a /\ s[2] = b
  OBVIOUS
<1> HIDE DEF s
<1>2. \A i \in 1 .. 2 : i = 1 \/ i = 2
  OBVIOUS
<1>3. Planned(s)
  BY <1>1, <1>2 DEF Planned, Opens, Makes
<1> QED BY <1>1, <1>3 DEF Begun, s

LEMMA PlannedThree ==
  ASSUME NEW a \in CallNames \ (Opens \union {"run"}), NEW b \in CallNames \ (Opens \union {"run"}),
         NEW c \in CallNames \ (Opens \union {"run"})
  PROVE Begun(<<a, b, c>>, a)
<1> DEFINE s == <<a, b, c>>
<1>1. /\ s \in Seq(CallNames) /\ s # <<>> /\ Head(s) = a /\ DOMAIN s = 1 .. 3
      /\ s[1] = a /\ s[2] = b /\ s[3] = c
  OBVIOUS
<1> HIDE DEF s
<1>2. \A i \in 1 .. 3 : i = 1 \/ i = 2 \/ i = 3
  OBVIOUS
<1>3. Planned(s)
  BY <1>1, <1>2 DEF Planned, Opens
<1> QED BY <1>1, <1>3 DEF Begun, s

LEMMA PlannedRun == Begun(<<"create", "listThenRun", "run", "list">>, "create")
<1> DEFINE s == <<"create", "listThenRun", "run", "list">>
<1>1. /\ s \in Seq(CallNames) /\ s # <<>> /\ Head(s) = "create" /\ DOMAIN s = 1 .. 4
      /\ s[1] = "create" /\ s[2] = "listThenRun" /\ s[3] = "run" /\ s[4] = "list" /\ Len(s) = 4
  BY DEF CallNames
<1> HIDE DEF s
<1>2. \A i \in 1 .. 4 : i = 1 \/ i = 2 \/ i = 3 \/ i = 4
  OBVIOUS
<1>3. Planned(s)
  BY <1>1, <1>2 DEF Planned
<1> QED BY <1>1, <1>3 DEF Begun, s, Opens

LEMMA PlansArePlanned ==
  ASSUME NEW kind \in DOMAIN Plan
  PROVE  \E first : /\ Begun(Plan[kind], first)
                    /\ kind = "confirmCrystallize" => first = "crystallize"
<1>1. kind \in {"create", "startCrystallize", "confirmCrystallize", "instantiate", "complete",
                "allow", "deny", "refresh"} \union Commands
  BY DEF Plan, Commands
<1>2. /\ Plan["create"] = <<"create", "listThenRun", "run", "list">>
      /\ Plan["startCrystallize"] = <<"previewCrystallize">>
      /\ Plan["confirmCrystallize"] = <<"crystallize", "listThenOpen">>
      /\ Plan["instantiate"] = <<"instantiate", "listThenOpen">>
      /\ Plan["complete"] = <<"setStatus", "list">>
      /\ Plan["allow"] = <<"decide", "execute", "list">>
      /\ Plan["deny"] = <<"decide", "list">>
      /\ Plan["refresh"] = <<"list">>
      /\ Plan["cliCreate"] = <<"create", "list">>
      /\ Plan["cliOpen"] = <<"find">>
      /\ Plan["cliCrystallize"] = <<"find", "crystallize", "list">>
      /\ Plan["cliComplete"] = <<"find", "setStatus", "list">>
  BY DEF Plan
<1>3. /\ Begun(<<"previewCrystallize">>, "previewCrystallize")
      /\ Begun(<<"list">>, "list")
      /\ Begun(<<"find">>, "find")
  BY PlannedOne DEF Opens, CallNames
<1>4. /\ Begun(<<"crystallize", "listThenOpen">>, "crystallize")
      /\ Begun(<<"instantiate", "listThenOpen">>, "instantiate")
      /\ Begun(<<"setStatus", "list">>, "setStatus")
      /\ Begun(<<"decide", "list">>, "decide")
      /\ Begun(<<"create", "list">>, "create")
  BY PlannedTwo DEF Opens, CallNames, Makes
<1>5. /\ Begun(<<"decide", "execute", "list">>, "decide")
      /\ Begun(<<"find", "crystallize", "list">>, "find")
      /\ Begun(<<"find", "setStatus", "list">>, "find")
  BY PlannedThree DEF Opens, CallNames
<1>6. CASE kind = "confirmCrystallize"
  BY <1>2, <1>4, <1>6
<1>7. CASE kind \in {"create", "refresh", "startCrystallize"}
  BY <1>2, <1>3, <1>7, PlannedRun
<1>8. CASE kind \in {"instantiate", "complete", "allow", "deny"}
  BY <1>2, <1>4, <1>5, <1>8
<1>9. CASE kind \in Commands
  BY <1>2, <1>3, <1>4, <1>5, <1>9 DEF Commands
<1> QED BY <1>1, <1>6, <1>7, <1>8, <1>9

-----------------------------------------------------------------------------
(* The desktop's jobs. *)

(* What is left of a plan after its first call.                            *)
LEMMA TailPlanned ==
  ASSUME NEW calls \in Seq(CallNames), calls # <<>>, Planned(calls)
  PROVE  /\ Tail(calls) \in Seq(CallNames)
         /\ Planned(Tail(calls))
         /\ Head(calls) = "listThenRun" =>
              Len(calls) > 1 /\ Tail(calls) # <<>> /\ Head(Tail(calls)) = "run"
         /\ Tail(calls) # <<>> =>
              /\ Head(Tail(calls)) = "run" => Head(calls) = "listThenRun"
              /\ Head(Tail(calls)) \in Opens => Head(calls) \in Makes
<1> DEFINE n == Len(calls)
           rest == Tail(calls)
<1>1. /\ rest \in Seq(CallNames) /\ n \in Nat \ {0} /\ Len(rest) = n - 1
      /\ DOMAIN calls = 1 .. n /\ DOMAIN rest = 1 .. (n - 1)
      /\ \A i \in 1 .. (n - 1) : rest[i] = calls[i + 1]
      /\ Head(calls) = calls[1]
      /\ rest # <<>> => n > 1 /\ Head(rest) = calls[2]
      /\ n > 1 => rest # <<>>
  OBVIOUS
<1> HIDE DEF n, rest
<1>2. \A i \in 1 .. n :
        /\ calls[i] = "listThenRun" => i < n /\ calls[i + 1] = "run"
        /\ calls[i] = "run" /\ i > 1 => calls[i - 1] = "listThenRun"
        /\ calls[i] \in Opens /\ i > 1 => calls[i - 1] \in Makes
  BY <1>1 DEF Planned, Opens, Makes, n
<1>3. ASSUME NEW i \in DOMAIN rest
      PROVE  /\ rest[i] = "listThenRun" => i < Len(rest) /\ rest[i + 1] = "run"
             /\ rest[i] = "run" /\ i > 1 => rest[i - 1] = "listThenRun"
             /\ rest[i] \in Opens /\ i > 1 => rest[i - 1] \in Makes
  <2>1. i \in 1 .. (n - 1) /\ i + 1 \in 1 .. n /\ rest[i] = calls[i + 1]
    BY <1>1
  <2>2. i > 1 => rest[i - 1] = calls[i]
    BY <1>1, <2>1
  <2>3. i < n - 1 => rest[i + 1] = calls[(i + 1) + 1]
    BY <1>1, <2>1
  <2>4. (i + 1) - 1 = i /\ i + 1 > 1 /\ (i + 1 < n => i < Len(rest) /\ i < n - 1)
    BY <1>1, <2>1
  <2> QED BY <1>2, <2>1, <2>2, <2>3, <2>4
<1>4. Planned(rest)
  BY <1>3 DEF Planned, Opens, Makes
<1>5. /\ Head(calls) = "listThenRun" => n > 1 /\ calls[2] = "run"
      /\ n > 1 => /\ calls[2] = "run" => Head(calls) = "listThenRun"
                  /\ calls[2] \in Opens => Head(calls) \in Makes
  <2>1. 1 \in 1 .. n /\ (n > 1 => 2 \in 1 .. n)
    BY <1>1
  <2> QED BY <1>1, <1>2, <2>1
<1> QED BY <1>1, <1>4, <1>5 DEF rest, n

(* A step that leaves the calls in flight, the service and the indicators. *)
LEMMA SameJobs ==
  ASSUME DesktopInv, jobs' \in [Jobs -> Job],
         \A j \in Jobs : /\ jobs'[j].kind = jobs[j].kind
                         /\ jobs'[j].calls = jobs[j].calls
                         /\ jobs'[j].context = jobs[j].context,
         UNCHANGED <<service, busy, activity>>
  PROVE  JobsApart' /\ IndicatorsAreTruthful'
<1>1. JobsApart'
  BY DEF DesktopInv, JobsApart, Opening, Running, Calling, Free
<1>2. \A j \in Jobs, call \in {"run", "crystallize"} : Calling(j, call)' <=> Calling(j, call)
  BY DEF Calling, Free
<1>3. Confirming' <=> Confirming
  BY <1>2 DEF Confirming
<1>4. {jobs'[j].context : j \in {k \in Jobs : Calling(k, "run")'}}
        = {jobs[j].context : j \in {k \in Jobs : Calling(k, "run")}}
  BY <1>2
<1>5. IndicatorsAreTruthful'
  BY <1>2, <1>3, <1>4 DEF DesktopInv, IndicatorsAreTruthful
<1> QED BY <1>1, <1>5

(* Whether a job would be at a call.                                       *)
CallIs(job, call) == job.calls # <<>> /\ Head(job.calls) = call
MayRun(job) == CallIs(job, "listThenRun") \/ CallIs(job, "run")
MayOpen(job) == MayRun(job) \/ CallIs(job, "listThenOpen")
MayConfirm(job) == job.kind = "confirmCrystallize" /\ CallIs(job, "crystallize")

(* A step of one job keeps the jobs apart.                                 *)
LEMMA OneJobApart ==
  ASSUME DesktopInv, NEW j \in Jobs, NEW new \in Job,
         jobs' = [jobs EXCEPT ![j] = new],
         Len(service') \in Nat, Len(service) <= Len(service'),
         Planned(new.calls),
         MayOpen(new) => new.context \in 1 .. Len(service'),
         MayRun(new) => \A k \in Jobs : k # j /\ Running(k) => jobs[k].context # new.context
  PROVE  JobsApart' /\ jobs' \in [Jobs -> Job]
<1>1. jobs \in [Jobs -> Job] /\ Len(service) \in Nat
  BY DEF DesktopInv, DesktopTypeOK
<1>2. \A k \in Jobs : jobs'[k] = IF k = j THEN new ELSE jobs[k]
  BY <1>1
<1>3. \A k \in Jobs : Planned(jobs'[k].calls)
  BY <1>2 DEF DesktopInv, JobsApart
<1>4. \A k \in Jobs : Opening(k)' => jobs'[k].context \in 1 .. Len(service')
  <2>1. \A k \in Jobs : k # j /\ Opening(k)' => Opening(k)
    BY <1>2 DEF Opening, Calling, Free
  <2>2. \A k \in Jobs : Opening(k) => jobs[k].context \in 1 .. Len(service')
    BY <1>1 DEF DesktopInv, JobsApart
  <2>3. Opening(j)' => MayOpen(new)
    BY <1>2 DEF Opening, Calling, Free, MayOpen, MayRun, CallIs
  <2> QED BY <1>2, <2>1, <2>2, <2>3
<1>5. \A k, l \in Jobs : k # l /\ Running(k)' /\ Running(l)' =>
          jobs'[k].context # jobs'[l].context
  <2>1. \A k \in Jobs : k # j => (Running(k)' <=> Running(k))
    BY <1>2 DEF Running, Calling, Free
  <2>2. Running(j)' => MayRun(new)
    BY <1>2 DEF Running, Calling, Free, MayRun, CallIs
  <2> QED BY <1>2, <2>1, <2>2 DEF DesktopInv, JobsApart
<1> QED BY <1>1, <1>3, <1>4, <1>5 DEF JobsApart

(* A step of a job that neither was nor is a run.                          *)
LEMMA QuietJobTruthful ==
  ASSUME DesktopInv, NEW j \in Jobs, NEW new \in Job,
         jobs' = [jobs EXCEPT ![j] = new],
         ~Calling(j, "run"), ~CallIs(new, "run"), activity' = activity,
         busy' => MayConfirm(new) \/ (busy /\ ~MayConfirm(jobs[j]))
  PROVE  IndicatorsAreTruthful'
<1>1. \A k \in Jobs : jobs'[k] = IF k = j THEN new ELSE jobs[k]
  BY DEF DesktopInv, DesktopTypeOK
<1>2. \A k \in Jobs : Calling(k, "run")' <=> Calling(k, "run")
  BY <1>1 DEF Calling, Free, CallIs
<1>3. \A k \in Jobs : Calling(k, "run") => k # j
  OBVIOUS
<1>4. {jobs'[k].context : k \in {l \in Jobs : Calling(l, "run")'}}
        = {jobs[k].context : k \in {l \in Jobs : Calling(l, "run")}}
  BY <1>1, <1>2, <1>3
<1>5. busy' => Confirming' \/ \E k \in Jobs : Calling(k, "run")'
  <2>1. CASE MayConfirm(new)
    BY <1>1, <2>1 DEF MayConfirm, CallIs, Confirming, Calling, Free
  <2>2. CASE busy /\ ~MayConfirm(jobs[j])
    <3>1. Confirming => Confirming'
      BY <1>1, <2>2 DEF MayConfirm, CallIs, Confirming, Calling, Free
    <3> QED BY <1>2, <2>2, <3>1 DEF DesktopInv, IndicatorsAreTruthful
  <2> QED BY <2>1, <2>2
<1> QED BY <1>4, <1>5 DEF DesktopInv, IndicatorsAreTruthful

LEMMA ViewportsAreNumbers ==
  /\ Max(Viewports) \in Viewports
  /\ Viewports \subseteq Nat
  BY DesktopAssumption DEF Max

LEMMA NoJobIsOne ==
  /\ NoJob \in Job /\ NoJob.calls = <<>> /\ Planned(<<>>)
  /\ \A call : ~CallIs(NoJob, call)
  BY DEF NoJob, Job, Planned, CallIs

LEMMA DesktopInitHolds == DesktopInit => DesktopInv
<1> SUFFICES ASSUME DesktopInit PROVE DesktopInv
  OBVIOUS
<1>1. viewport \in Viewports /\ viewport \in Nat
  BY ViewportsAreNumbers DEF DesktopInit
<1>2. wm \in WindowsState /\ Stacked(wm)
  <2> DEFINE none == [windows |-> <<>>, nextZ |-> 0]
             map == Only("context-map")
  <2>1. none \in WindowsState /\ Stacked(none)
    BY DEF WindowsState, Stacked
  <2>2. map \in WindowIds
    BY DEF WindowIds
  <2>3. wm = Open(none, map, Cascade(0, map, viewport))
    BY DEF DesktopInit
  <2> HIDE DEF none, map
  <2>4. Cascade(0, map, viewport) \in Geometry
    BY <1>1, <2>2, CascadeIsGeometry
  <2> QED BY <2>1, <2>2, <2>3, <2>4, OpenStacked
<1>3. FirstList \in Job /\ FirstList.calls = <<"list">> /\ FirstList.kind = "refresh"
  <2>1. Len(Stored) \in Nat
    BY DesktopAssumption
  <2>2. Plan["refresh"] = <<"list">> /\ "refresh" \in DOMAIN Plan
    BY DEF Plan
  <2>3. <<"list">> \in Seq(CallNames)
    BY DEF CallNames
  <2> QED BY <2>1, <2>2, <2>3, NoJobIsOne DEF FirstList, Job
<1>4. \A j \in Jobs : jobs[j] = FirstList \/ jobs[j] = NoJob
  BY DEF DesktopInit
<1>5. jobs \in [Jobs -> Job]
  BY <1>3, NoJobIsOne DEF DesktopInit
<1>6. \A j \in Jobs : Planned(jobs[j].calls)
  <2>1. Planned(<<"list">>)
    BY PlannedOne DEF Opens, CallNames, Begun
  <2> QED BY <1>3, <1>4, <2>1, NoJobIsOne
<1>7. \A j \in Jobs : \A call : Calling(j, call) => call = "list"
  BY <1>3, <1>4, NoJobIsOne DEF Calling, Free
<1>8. JobsApart
  BY <1>6, <1>7 DEF JobsApart, Opening, Running
<1>9. IndicatorsAreTruthful
  BY <1>7 DEF IndicatorsAreTruthful, DesktopInit
<1>10. DesktopTypeOK
  BY <1>1, <1>2, <1>5, DesktopAssumption DEF DesktopInit, DesktopTypeOK
<1> QED BY <1>2, <1>8, <1>9, <1>10 DEF DesktopInv, WindowsStacked

-----------------------------------------------------------------------------
(* The windows. *)

LEMMA WindowingHolds ==
  ASSUME DesktopInv, NEW next \in WindowsState, Stacked(next), Windowing(next)
  PROVE  DesktopInv'
<1>1. jobs \in [Jobs -> Job]
  BY DEF DesktopInv, DesktopTypeOK
<1>2. ASSUME NEW j \in Jobs
      PROVE  /\ jobs'[j] \in Job
             /\ jobs'[j].kind = jobs[j].kind
             /\ jobs'[j].calls = jobs[j].calls
             /\ jobs'[j].context = jobs[j].context
  <2> DEFINE alive == \E i \in DOMAIN next.windows :
                next.windows[i].id = Only("terminal") /\ ~next.windows[i].minimized
  <2>1. jobs'[j] = [jobs[j] EXCEPT !.here = @ /\ alive]
    BY DEF Windowing, Terminated
  <2>2. alive \in BOOLEAN
    OBVIOUS
  <2> HIDE DEF alive
  <2>3. jobs[j] \in Job /\ (jobs[j].here /\ alive) \in BOOLEAN
    BY <1>1, <2>2
  <2>4. jobs'[j] = [jobs[j] EXCEPT !.here = jobs[j].here /\ alive]
    BY <2>1
  <2> QED BY <2>3, <2>4 DEF Job
<1>3. jobs' \in [Jobs -> Job]
  <2>1. jobs' = [j \in Jobs |-> jobs'[j]]
    BY DEF Windowing, Terminated
  <2> QED BY <1>2, <2>1
<1>4. JobsApart' /\ IndicatorsAreTruthful'
  BY <1>2, <1>3, SameJobs DEF Windowing
<1>5. DesktopTypeOK'
  BY <1>3 DEF Windowing, Moves, DesktopInv, DesktopTypeOK
<1>6. WindowsStacked'
  BY DEF Windowing, WindowsStacked
<1> QED BY <1>4, <1>5, <1>6 DEF DesktopInv

LEMMA OpenedFrameStacked ==
  ASSUME DesktopInv, NEW id \in WindowIds, NEW count \in Nat, NEW view \in Int
  PROVE  /\ OpenedFrame(id, count, view) \in WindowsState
         /\ Stacked(OpenedFrame(id, count, view))
<1>1. wm \in WindowsState /\ Stacked(wm) /\ viewport \in Int
  BY ViewportsAreNumbers DEF DesktopInv, DesktopTypeOK, WindowsStacked
<1> DEFINE next == Open(wm, id, Cascade(count, id, view))
<1>2. next \in WindowsState /\ Stacked(next)
  BY <1>1, CascadeIsGeometry, OpenStacked
<1>3. OpenedFrame(id, count, view)
        = IF IsOpen(wm, id) THEN next ELSE PulledBack(next, {id}, viewport)
  BY DEF OpenedFrame
<1> HIDE DEF next
<1> QED BY <1>1, <1>2, <1>3, PulledBackStacked

LEMMA AtIsThere ==
  ASSUME NEW id \in IdsOf(wm), wm \in WindowsState
  PROVE  /\ wm.windows[At(id)].at.x \in Int
         /\ wm.windows[At(id)].at.width \in Int
<1>1. \E i \in DOMAIN wm.windows : wm.windows[i].id = id
  BY DEF IdsOf
<1>2. At(id) \in DOMAIN wm.windows
  BY <1>1 DEF At
<1>3. wm.windows[At(id)] \in Window
  BY <1>2, EachIsAWindow
<1> QED BY <1>3 DEF Window, Geometry

LEMMA WindowStepHolds ==
  ASSUME DesktopInv, WindowStep
  PROVE  DesktopInv'
<1>0. /\ wm \in WindowsState /\ Stacked(wm) /\ viewport \in Int
      /\ Len(wm.windows) \in Nat
  <2>1. wm \in WindowsState /\ Stacked(wm) /\ viewport \in Int
    BY ViewportsAreNumbers DEF DesktopInv, DesktopTypeOK, WindowsStacked
  <2>2. wm.windows \in Seq(Window)
    BY <2>1 DEF WindowsState
  <2> QED BY <2>1, <2>2
<1>1. ASSUME NEW kind \in Tools, OpenTool(kind) PROVE DesktopInv'
  <2>1. Only(kind) \in WindowIds
    BY DesktopAssumption DEF WindowIds
  <2> QED BY <1>0, <1>1, <2>1, OpenedFrameStacked, WindowingHolds DEF OpenTool
<1>2. ASSUME NEW c \in ContextIds, OpenListed(c) PROVE DesktopInv'
  <2>1. ContextWindow(c) \in WindowIds
    BY DEF WindowIds
  <2> QED BY <1>0, <1>2, <2>1, OpenedFrameStacked, WindowingHolds DEF OpenListed
<1>3. ASSUME NEW id \in IdsOf(wm), CloseWindow(id) PROVE DesktopInv'
  BY <1>0, <1>3, FocusStacked, CloseStacked, WindowingHolds DEF CloseWindow
<1>4. ASSUME NEW id \in IdsOf(wm), FocusWindow(id) PROVE DesktopInv'
  BY <1>0, <1>4, FocusStacked, WindowingHolds DEF FocusWindow
<1>5. ASSUME NEW id \in IdsOf(wm), MinimizeWindow(id) PROVE DesktopInv'
  BY <1>0, <1>5, FocusStacked, MinimizeStacked, WindowingHolds DEF MinimizeWindow
<1>6. ASSUME NEW id \in IdsOf(wm), RestoreWindow(id) PROVE DesktopInv'
  BY <1>0, <1>6, RaiseStacked, WindowingHolds DEF RestoreWindow
<1>7. ASSUME NEW id \in IdsOf(wm), ToggleWindow(id) PROVE DesktopInv'
  BY <1>0, <1>7, FocusStacked, ToggleStacked, WindowingHolds DEF ToggleWindow
<1>8. ASSUME NEW id \in IdsOf(wm), NEW x \in Places, DragWindow(id, x) PROVE DesktopInv'
  <2> DEFINE to == ClampX(x, wm.windows[At(id)].at.width, viewport)
  <2>1. to \in Int
    BY <1>0, AtIsThere, ClampIsInt, DesktopAssumption
  <2>2. Windowing(Move(Focus(wm, id), id, to))
    BY <1>8 DEF DragWindow
  <2> HIDE DEF to
  <2> QED BY <1>0, <2>1, <2>2, FocusStacked, MoveStacked, WindowingHolds
<1>9. ASSUME NEW id \in IdsOf(wm), NEW x \in Places, ResizeWindow(id, x) PROVE DesktopInv'
  <2> DEFINE left == wm.windows[At(id)].at.x
             wide == Max({MinWidth, x - left})
             most == viewport - ChromeRight - left
             width == Min({wide, most})
  <2>1. left \in Int /\ x \in Int /\ MinWidth \in Int
    BY <1>0, AtIsThere, DesktopAssumption DEF MinWidth
  <2>2. Windowing(Resize(Focus(wm, id), id, width))
    BY <1>9 DEF ResizeWindow
  <2>3. width \in Int
    <3> HIDE DEF left
    <3>1. x - left \in Int /\ most \in Int
      BY <1>0, <2>1 DEF ChromeRight
    <3>2. wide \in Int
      BY <2>1, <3>1, MaxOfTwo
    <3> HIDE DEF wide, most
    <3> QED BY <3>1, <3>2, MaxOfTwo
  <2> HIDE DEF width
  <2> QED BY <1>0, <2>2, <2>3, FocusStacked, ResizeStacked, WindowingHolds
<1>10. CASE MinimizeAll
  BY <1>0, <1>10, AllMinimizedStacked, WindowingHolds DEF MinimizeAll
<1>11. CASE BringAllToFront
  BY <1>0, <1>11, AllMinimizedStacked, WindowingHolds DEF BringAllToFront
<1>12. CASE TileWindows
  BY <1>0, <1>12, TileStacked, WindowingHolds DEF TileWindows
<1>13. CASE ViewportChanges
  <2>1. PICK view \in Viewports :
          /\ Moves
          /\ viewport' = view
          /\ wm' = PulledBack(wm, {id \in IdsOf(wm) : Mounted(id, listed)}, view)
          /\ UNCHANGED <<service, listed, busy, activity, preview, jobs>>
    BY <1>13 DEF ViewportChanges
  <2>2. view \in Int
    BY ViewportsAreNumbers
  <2>3. wm' \in WindowsState /\ Stacked(wm')
    BY <1>0, <2>1, <2>2, PulledBackStacked
  <2>4. JobsApart' /\ IndicatorsAreTruthful'
    BY <2>1, SameJobs DEF DesktopInv, DesktopTypeOK
  <2>5. DesktopTypeOK'
    BY <2>1, <2>3 DEF Moves, DesktopInv, DesktopTypeOK
  <2> QED BY <2>3, <2>4, <2>5 DEF DesktopInv, WindowsStacked
<1> QED
  BY <1>1, <1>2, <1>3, <1>4, <1>5, <1>6, <1>7, <1>8, <1>9, <1>10, <1>11, <1>12, <1>13
     DEF WindowStep

-----------------------------------------------------------------------------
(* Beginnings. *)

LEMMA BeginJobHolds ==
  ASSUME DesktopInv, NEW kind \in DOMAIN Plan, NEW c \in Nat, BeginJob(kind, c),
         UNCHANGED <<activity, preview>>,
         UNCHANGED busy \/ (kind = "confirmCrystallize" /\ busy' = TRUE)
  PROVE  DesktopInv'
<1> DEFINE new == [kind |-> kind, calls |-> Plan[kind], context |-> c,
                   since |-> Len(service), viewport |-> viewport,
                   count |-> Len(wm.windows), here |-> kind \in Commands]
<1>1. PICK j \in Jobs : Free(j) /\ jobs' = [jobs EXCEPT ![j] = new]
  BY DEF BeginJob
<1>2. /\ Len(service) \in Nat /\ viewport \in Nat /\ Len(wm.windows) \in Nat
      /\ UNCHANGED <<wm, viewport, service, listed>>
  <2>1. wm.windows \in Seq(Window) /\ service \in Seq({"plain", "template"})
    BY DEF DesktopInv, DesktopTypeOK, WindowsState
  <2> QED BY <2>1, ViewportsAreNumbers DEF BeginJob, DesktopInv, DesktopTypeOK
<1>3. PICK first : /\ Begun(Plan[kind], first)
                   /\ kind = "confirmCrystallize" => first = "crystallize"
  BY PlansArePlanned
<1>4. new \in Job /\ new.kind = kind /\ new.calls = Plan[kind]
  BY <1>2, <1>3 DEF Job, Begun
<1> HIDE DEF new
<1>5. /\ Planned(new.calls) /\ ~MayOpen(new) /\ ~MayRun(new) /\ ~CallIs(new, "run")
      /\ kind = "confirmCrystallize" => MayConfirm(new)
  BY <1>3, <1>4 DEF Begun, MayOpen, MayRun, CallIs, Opens, MayConfirm
<1>6. JobsApart' /\ jobs' \in [Jobs -> Job]
  <2>1. Len(service') \in Nat /\ Len(service) <= Len(service')
    BY <1>2
  <2> QED BY <1>1, <1>4, <1>5, <2>1, OneJobApart
<1>7. ~Calling(j, "run") /\ ~MayConfirm(jobs[j])
  BY <1>1 DEF Calling, Free, MayConfirm, CallIs
<1>8. IndicatorsAreTruthful'
  <2>1. busy' => MayConfirm(new) \/ (busy /\ ~MayConfirm(jobs[j]))
    BY <1>5, <1>7
  <2> QED BY <1>1, <1>4, <1>5, <1>7, <2>1, QuietJobTruthful
<1>9. DesktopTypeOK'
  <2>1. busy' \in BOOLEAN
    BY DEF DesktopInv, DesktopTypeOK
  <2>2. moves' \in Nat /\ begins' \in Nat
    BY DEF BeginJob, Begins, DesktopInv, DesktopTypeOK
  <2> QED BY <1>2, <1>6, <2>1, <2>2 DEF DesktopInv, DesktopTypeOK
<1>10. WindowsStacked'
  BY <1>2 DEF DesktopInv, WindowsStacked
<1> QED BY <1>6, <1>8, <1>9, <1>10 DEF DesktopInv

LEMMA BeginSomethingHolds ==
  ASSUME DesktopInv, BeginSomething
  PROVE  DesktopInv'
<1>0. /\ ContextIds \subseteq Nat /\ preview \in Nat
      /\ {"create", "refresh", "startCrystallize", "confirmCrystallize", "complete",
          "instantiate", "allow", "deny"} \subseteq DOMAIN Plan
      /\ Commands \subseteq DOMAIN Plan
  <2>1. ContextIds \subseteq Nat
    BY DesktopAssumption, FS_CardinalityType
  <2> QED BY <2>1 DEF Plan, Commands, DesktopInv, DesktopTypeOK
<1>1. CASE SubmitForm
  BY <1>0, <1>1, BeginJobHolds DEF SubmitForm
<1>2. CASE Refresh
  BY <1>0, <1>2, BeginJobHolds DEF Refresh
<1>3. ASSUME NEW c \in ContextIds, StartCrystallize(c) PROVE DesktopInv'
  BY <1>0, <1>3, BeginJobHolds DEF StartCrystallize
<1>4. ASSUME NEW c \in ContextIds, Complete(c) PROVE DesktopInv'
  BY <1>0, <1>4, BeginJobHolds DEF Complete
<1>5. ASSUME NEW c \in ContextIds, Instantiate(c) PROVE DesktopInv'
  BY <1>0, <1>5, BeginJobHolds DEF Instantiate
<1>6. ASSUME NEW c \in ContextIds, AnswerPrompt(c) PROVE DesktopInv'
  BY <1>0, <1>6, BeginJobHolds DEF AnswerPrompt
<1>7. ASSUME NEW kind \in Commands, Command(kind) PROVE DesktopInv'
  BY <1>0, <1>7, BeginJobHolds DEF Command
<1>8. CASE ConfirmDialog
  BY <1>0, <1>8, BeginJobHolds DEF ConfirmDialog
<1>9. CASE CancelDialog
  <2>1. JobsApart' /\ IndicatorsAreTruthful'
    BY <1>9, SameJobs DEF CancelDialog, DesktopInv, DesktopTypeOK
  <2>2. DesktopTypeOK' /\ WindowsStacked'
    BY <1>9 DEF CancelDialog, Begins, DesktopInv, DesktopTypeOK, WindowsStacked
  <2> QED BY <2>1, <2>2 DEF DesktopInv
<1> QED
  BY <1>1, <1>2, <1>3, <1>4, <1>5, <1>6, <1>7, <1>8, <1>9 DEF BeginSomething

-----------------------------------------------------------------------------
(* Answers. *)

LEMMA JobEnds ==
  ASSUME DesktopInv, NEW j \in Jobs, Ends(j), ~Calling(j, "run"),
         UNCHANGED <<service, activity>>,
         busy' => busy /\ ~MayConfirm(jobs[j])
  PROVE  JobsApart' /\ IndicatorsAreTruthful' /\ jobs' \in [Jobs -> Job]
<1>1. jobs' = [jobs EXCEPT ![j] = NoJob]
  BY DEF Ends
<1>2. Len(service) \in Nat
  BY DEF DesktopInv, DesktopTypeOK
<1>3. ~MayOpen(NoJob) /\ ~MayRun(NoJob) /\ ~CallIs(NoJob, "run")
  BY NoJobIsOne DEF MayOpen, MayRun
<1>4. NoJob \in Job /\ Planned(NoJob.calls)
  BY NoJobIsOne
<1>5. JobsApart' /\ jobs' \in [Jobs -> Job]
  <2>1. Len(service') \in Nat /\ Len(service) <= Len(service')
    BY <1>2
  <2> QED BY <1>1, <1>3, <1>4, <2>1, OneJobApart
<1>6. IndicatorsAreTruthful'
  BY <1>1, <1>3, <1>4, QuietJobTruthful
<1> QED BY <1>5, <1>6

(* What a job is that goes on. *)
LEMMA JobGoesOn ==
  ASSUME DesktopInv, NEW j \in Jobs, NEW c \in Nat, NEW since \in Nat, NEW call,
         Calling(j, call),
         jobs' = [jobs EXCEPT ![j] = Onward(j, c, since)]
  PROVE  \E new \in Job :
            /\ jobs' = [jobs EXCEPT ![j] = new]
            /\ Planned(new.calls)
            /\ CallIs(new, "run") => call \in {"listThenRun"}
            /\ call \in {"listThenRun"} => CallIs(new, "run")
            /\ MayOpen(new) => new.context = c /\ call \in Makes \union {"listThenRun"}
            /\ MayRun(new) => call \in Makes \union {"listThenRun"}
<1> DEFINE old == jobs[j]
           new == IF Len(old.calls) = 1 THEN NoJob
                  ELSE [old EXCEPT !.calls = Tail(old.calls), !.context = c, !.since = since]
<1>1. /\ old \in Job /\ old.calls \in Seq(CallNames) /\ old.calls # <<>>
      /\ Head(old.calls) = call /\ Planned(old.calls)
  BY DEF DesktopInv, DesktopTypeOK, JobsApart, Calling, Free, Job
<1>2. jobs' = [jobs EXCEPT ![j] = new]
  BY DEF Onward
<1> HIDE DEF old
<1>3. /\ Tail(old.calls) \in Seq(CallNames)
      /\ Planned(Tail(old.calls))
      /\ call = "listThenRun" => Tail(old.calls) # <<>> /\ Head(Tail(old.calls)) = "run"
      /\ Tail(old.calls) # <<>> =>
           /\ Head(Tail(old.calls)) = "run" => call = "listThenRun"
           /\ Head(Tail(old.calls)) \in Opens => call \in Makes
      /\ Len(old.calls) = 1 => call # "listThenRun"
  BY <1>1, TailPlanned
<1>4. CASE Len(old.calls) = 1
  <2>1. new = NoJob /\ call # "listThenRun"
    BY <1>3, <1>4
  <2>2. ~MayOpen(NoJob) /\ ~MayRun(NoJob) /\ ~CallIs(NoJob, "run")
    BY NoJobIsOne DEF MayOpen, MayRun
  <2>3. NoJob \in Job /\ Planned(NoJob.calls)
    BY NoJobIsOne
  <2> HIDE DEF new
  <2> QED BY <1>2, <2>1, <2>2, <2>3
<1>5. CASE Len(old.calls) # 1
  <2>1. new \in Job /\ new.calls = Tail(old.calls) /\ new.context = c
    BY <1>1, <1>3, <1>5 DEF Job
  <2> HIDE DEF new
  <2>2. /\ Planned(new.calls)
        /\ CallIs(new, "run") => call \in {"listThenRun"}
        /\ call = "listThenRun" => CallIs(new, "run")
        /\ MayOpen(new) => call \in Makes \union {"listThenRun"}
        /\ MayRun(new) => call \in Makes \union {"listThenRun"}
    BY <1>3, <2>1 DEF CallIs, MayRun, MayOpen, Opens
  <2> QED BY <1>2, <2>1, <2>2
<1> QED BY <1>4, <1>5

(* A call that makes no context and starts no run. *)
LEMMA QuietJobGoesOn ==
  ASSUME DesktopInv, NEW j \in Jobs, NEW c \in Nat, NEW since \in Nat, NEW call,
         Calling(j, call), call \notin Makes \union {"listThenRun", "run"},
         jobs' = [jobs EXCEPT ![j] = Onward(j, c, since)],
         UNCHANGED <<service, busy, activity>>
  PROVE  JobsApart' /\ IndicatorsAreTruthful' /\ jobs' \in [Jobs -> Job]
<1>1. PICK new \in Job :
         /\ jobs' = [jobs EXCEPT ![j] = new]
         /\ Planned(new.calls)
         /\ ~CallIs(new, "run") /\ ~MayOpen(new) /\ ~MayRun(new)
  BY JobGoesOn
<1>2. Len(service') \in Nat /\ Len(service) <= Len(service')
  BY DEF DesktopInv, DesktopTypeOK
<1>3. JobsApart' /\ jobs' \in [Jobs -> Job]
  BY <1>1, <1>2, OneJobApart
<1>4. ~Calling(j, "run") /\ ~MayConfirm(jobs[j])
  BY DEF Calling, MayConfirm, CallIs, Makes
<1>5. IndicatorsAreTruthful'
  BY <1>1, <1>4, QuietJobTruthful
<1> QED BY <1>3, <1>5

LEMMA MadeIsAContext ==
  ASSUME DesktopInv, NEW c \in 1 .. Len(service)
  PROVE  ContextWindow(c) \in WindowIds
<1>1. Cardinality(ContextIds) \in Nat /\ Len(service) \in Nat
      /\ Len(service) <= Cardinality(ContextIds)
  BY DesktopAssumption, FS_CardinalityType DEF DesktopInv, DesktopTypeOK
<1>2. c \in ContextIds
  BY <1>1, DesktopAssumption
<1> QED BY <1>2 DEF WindowIds

(* What a list shows is counted. *)
LEMMA ListedIsANumber ==
  ASSUME DesktopInv, NEW j \in Jobs,
         NEW known \in (jobs[j].since .. Len(service)) \union {listed}
  PROVE  known \in Nat
<1>1. jobs[j].since \in Nat /\ Len(service) \in Nat /\ listed \in Nat
  BY DEF DesktopInv, DesktopTypeOK, Job
<1> QED BY <1>1

LEMMA ListsAndOpensStacked ==
  ASSUME DesktopInv, NEW j \in Jobs, jobs[j].context \in 1 .. Len(service), ListsAndOpens(j)
  PROVE  wm' \in WindowsState /\ Stacked(wm') /\ listed' \in Nat
<1> DEFINE id == ContextWindow(jobs[j].context)
           opened == Open(wm, id, Cascade(jobs[j].count, id, jobs[j].viewport))
<1>1. /\ wm \in WindowsState /\ Stacked(wm) /\ viewport \in Int
      /\ jobs[j].count \in Nat /\ jobs[j].viewport \in Int
  BY ViewportsAreNumbers DEF DesktopInv, DesktopTypeOK, WindowsStacked, Job
<1>2. id \in WindowIds
  BY MadeIsAContext
<1>3. PICK known \in (jobs[j].since .. Len(service)) \union {listed} :
         listed' = known /\ \E ids : wm' = PulledBack(opened, ids, viewport)
  BY DEF ListsAndOpens
<1>4. PICK ids : wm' = PulledBack(opened, ids, viewport)
  BY <1>3
<1> HIDE DEF id
<1>5. opened \in WindowsState /\ Stacked(opened)
  BY <1>1, <1>2, CascadeIsGeometry, OpenStacked
<1> HIDE DEF opened
<1>6. wm' \in WindowsState /\ Stacked(wm')
  BY <1>1, <1>4, <1>5, PulledBackStacked
<1> QED BY <1>3, <1>6, ListedIsANumber

LEMMA MakesContextHolds ==
  ASSUME DesktopInv, NEW j \in Jobs, MakesContext(j)
  PROVE  DesktopInv'
<1>1. PICK call \in Makes :
         /\ Calling(j, call)
         /\ Len(service) < Cardinality(ContextIds)
         /\ service' = Append(service, IF call = "crystallize" THEN "template" ELSE "plain")
         /\ GoesOn(j, Len(service'))
         /\ IF jobs[j].kind = "confirmCrystallize"
            THEN busy' = FALSE /\ preview' = 0
            ELSE UNCHANGED <<busy, preview>>
         /\ UNCHANGED <<wm, viewport, listed, activity, bounds>>
  BY DEF MakesContext, Makes
<1>2. service \in Seq({"plain", "template"}) /\ Len(service) \in Nat
  BY DEF DesktopInv, DesktopTypeOK
<1>3. Cardinality(ContextIds) \in Nat
  BY DesktopAssumption, FS_CardinalityType
<1>4. /\ service' \in Seq({"plain", "template"}) /\ Len(service') = Len(service) + 1
      /\ Len(service') \in Nat /\ Len(service') <= Cardinality(ContextIds)
  BY <1>1, <1>2, <1>3
<1>5. PICK new \in Job :
         /\ jobs' = [jobs EXCEPT ![j] = new]
         /\ Planned(new.calls)
         /\ ~CallIs(new, "run")
         /\ MayOpen(new) => new.context = Len(service')
  <2>1. call # "listThenRun"
    BY <1>1 DEF Makes
  <2>2. jobs' = [jobs EXCEPT ![j] = Onward(j, Len(service'), Len(service'))]
    BY <1>1 DEF GoesOn
  <2>3. call \notin {"listThenRun"}
    BY <2>1
  <2>4. PICK n \in Nat : n = Len(service')
    BY <1>4
  <2>5. Calling(j, call) /\ jobs' = [jobs EXCEPT ![j] = Onward(j, n, n)]
    BY <1>1, <2>2, <2>4
  <2>6. PICK on \in Job :
           /\ jobs' = [jobs EXCEPT ![j] = on]
           /\ Planned(on.calls)
           /\ CallIs(on, "run") => call \in {"listThenRun"}
    BY <2>5, JobGoesOn
  <2>7. PICK same \in Job :
           /\ jobs' = [jobs EXCEPT ![j] = same]
           /\ MayOpen(same) => same.context = n
    BY <2>5, JobGoesOn
  <2>8. on = same
    BY <2>6, <2>7 DEF DesktopInv, DesktopTypeOK
  <2> QED BY <2>3, <2>4, <2>6, <2>7, <2>8
<1>6. JobsApart' /\ jobs' \in [Jobs -> Job]
  <2>1. MayOpen(new) => new.context \in 1 .. Len(service')
    BY <1>2, <1>4, <1>5
  <2>2. MayRun(new) => MayOpen(new)
    BY DEF MayOpen
  <2>3. \A k \in Jobs : Running(k) => jobs[k].context \in 1 .. Len(service)
    BY DEF DesktopInv, JobsApart, Running, Opening
  <2>4. MayRun(new) => \A k \in Jobs : k # j /\ Running(k) => jobs[k].context # new.context
    BY <1>2, <1>4, <1>5, <2>2, <2>3
  <2>5. Len(service') \in Nat /\ Len(service) <= Len(service')
    BY <1>2, <1>4
  <2> QED BY <1>5, <2>1, <2>4, <2>5, OneJobApart
<1>7. IndicatorsAreTruthful'
  <2>1. ~Calling(j, "run")
    BY <1>1 DEF Calling, Makes
  <2>2. busy' => busy /\ ~MayConfirm(jobs[j])
    BY <1>1 DEF MayConfirm
  <2> QED BY <1>1, <1>5, <2>1, <2>2, QuietJobTruthful
<1>8. DesktopTypeOK'
  <2>1. busy \in BOOLEAN /\ preview \in Nat /\ FALSE \in BOOLEAN /\ 0 \in Nat
    BY DEF DesktopInv, DesktopTypeOK
  <2>2. busy' \in BOOLEAN /\ preview' \in Nat
    <3>1. CASE jobs[j].kind = "confirmCrystallize"
      <4>1. busy' = FALSE /\ preview' = 0
        BY <1>1, <3>1
      <4> QED BY <2>1, <4>1, Zenon
    <3>2. CASE jobs[j].kind # "confirmCrystallize"
      <4>1. UNCHANGED <<busy, preview>>
        BY <1>1, <3>2
      <4> QED BY <2>1, <4>1, Zenon
    <3> QED BY <3>1, <3>2
  <2> QED BY <1>1, <1>4, <1>6, <2>2 DEF DesktopInv, DesktopTypeOK, bounds
<1>9. WindowsStacked'
  BY <1>1 DEF DesktopInv, WindowsStacked
<1> QED BY <1>6, <1>7, <1>8, <1>9 DEF DesktopInv

LEMMA EndingsHold ==
  ASSUME DesktopInv, NEW j \in Jobs, Refused(j) \/ PreviewLands(j)
  PROVE  DesktopInv'
<1>1. jobs[j].context \in Nat
  BY DEF DesktopInv, DesktopTypeOK, Job
<1>2. CASE Refused(j)
  <2>1. ~Calling(j, "run")
    BY <1>2 DEF Refused, Calling
  <2>2. busy' => busy /\ ~MayConfirm(jobs[j])
    BY <1>2 DEF Refused, MayConfirm
  <2>3. JobsApart' /\ IndicatorsAreTruthful' /\ jobs' \in [Jobs -> Job]
    BY <1>2, <2>1, <2>2, JobEnds DEF Refused
  <2>4. busy' \in BOOLEAN /\ preview' \in Nat
    <3>1. busy \in BOOLEAN /\ preview \in Nat
      BY DEF DesktopInv, DesktopTypeOK
    <3>2. (preview' = preview \/ preview' = 0) /\ (busy' = busy \/ busy' = FALSE)
      BY <1>2 DEF Refused
    <3>3. 0 \in Nat /\ FALSE \in BOOLEAN
      OBVIOUS
    <3> QED BY <3>1, <3>2, <3>3, Zenon
  <2>5. DesktopTypeOK' /\ WindowsStacked'
    BY <1>2, <2>3, <2>4
       DEF Refused, DesktopInv, DesktopTypeOK, WindowsStacked, bounds
  <2> QED BY <2>3, <2>5 DEF DesktopInv
<1>3. CASE PreviewLands(j)
  <2>1. ~Calling(j, "run") /\ ~MayConfirm(jobs[j])
    BY <1>3 DEF PreviewLands, Calling, MayConfirm, CallIs
  <2>2. JobsApart' /\ IndicatorsAreTruthful' /\ jobs' \in [Jobs -> Job]
    BY <1>3, <2>1, JobEnds DEF PreviewLands
  <2>3. DesktopTypeOK' /\ WindowsStacked'
    BY <1>1, <1>3, <2>2
       DEF PreviewLands, DesktopInv, DesktopTypeOK, WindowsStacked, bounds
  <2> QED BY <2>2, <2>3 DEF DesktopInv
<1> QED BY <1>2, <1>3

LEMMA QuietAnswersHold ==
  ASSUME DesktopInv, NEW j \in Jobs,
         Answered(j) \/ ListAnswered(j) \/ ListLandsAndOpens(j)
  PROVE  DesktopInv'
<1>0. /\ jobs[j].context \in Nat /\ Len(service) \in Nat
      /\ wm \in WindowsState /\ Stacked(wm) /\ viewport \in Int
  BY ViewportsAreNumbers DEF DesktopInv, DesktopTypeOK, Job, WindowsStacked
<1>1. PICK call \in {"setStatus", "decide", "execute", "list", "listThenOpen"} :
         Calling(j, call) /\ GoesOn(j, jobs[j].context)
         /\ UNCHANGED <<viewport, service, busy, activity, preview, bounds>>
  BY DEF Answered, ListAnswered, ListLandsAndOpens
<1>2. JobsApart' /\ IndicatorsAreTruthful' /\ jobs' \in [Jobs -> Job]
  <2>1. jobs' = [jobs EXCEPT ![j] = Onward(j, jobs[j].context, Len(service))]
    BY <1>1 DEF GoesOn
  <2>2. call \notin Makes \union {"listThenRun", "run"}
    BY DEF Makes
  <2> QED BY <1>0, <1>1, <2>1, <2>2, QuietJobGoesOn
<1>3. wm' \in WindowsState /\ Stacked(wm') /\ listed' \in Nat
  <2>1. CASE Answered(j)
    BY <1>0, <2>1 DEF Answered, DesktopInv, DesktopTypeOK
  <2>2. CASE ListAnswered(j)
    <3>1. PICK known \in (jobs[j].since .. Len(service)) \union {listed} : ListIs(known)
      BY <2>2 DEF ListAnswered
    <3> QED BY <1>0, <3>1, PulledBackStacked, ListedIsANumber DEF ListIs
  <2>3. CASE ListLandsAndOpens(j)
    <3>1. jobs[j].context \in 1 .. Len(service)
      BY <2>3 DEF ListLandsAndOpens, DesktopInv, JobsApart, Opening
    <3> QED BY <2>3, <3>1, ListsAndOpensStacked DEF ListLandsAndOpens
  <2> QED BY <2>1, <2>2, <2>3
<1>4. DesktopTypeOK'
  BY <1>1, <1>2, <1>3 DEF DesktopInv, DesktopTypeOK, bounds
<1> QED BY <1>2, <1>3, <1>4 DEF DesktopInv, WindowsStacked

(* createContext() goes on to runIntention(). *)
LEMMA RunBeginsHolds ==
  ASSUME DesktopInv, NEW j \in Jobs, ListLandsAndRuns(j)
  PROVE  DesktopInv'
<1> DEFINE c == jobs[j].context
<1>1. /\ Calling(j, "listThenRun") /\ Running(j) /\ Opening(j)
      /\ c \in Nat /\ c \in 1 .. Len(service) /\ Len(service) \in Nat
  BY DEF ListLandsAndRuns, DesktopInv, DesktopTypeOK, JobsApart, Running, Opening, Job
<1>2. /\ busy' = TRUE /\ activity' = activity \union {c}
      /\ UNCHANGED <<viewport, service, preview, bounds>>
      /\ jobs' = [jobs EXCEPT ![j] = Onward(j, c, Len(service))]
  BY DEF ListLandsAndRuns, GoesOn
<1>3. PICK new \in Job :
         /\ jobs' = [jobs EXCEPT ![j] = new]
         /\ Planned(new.calls)
         /\ CallIs(new, "run") /\ MayOpen(new) /\ new.context = c
  <2>1. PICK new \in Job :
           /\ jobs' = [jobs EXCEPT ![j] = new]
           /\ Planned(new.calls)
           /\ CallIs(new, "run")
           /\ MayOpen(new) => new.context = c
    <3>1. jobs' = [jobs EXCEPT ![j] = Onward(j, c, Len(service))]
      BY <1>2
    <3>2. c \in Nat /\ Len(service) \in Nat /\ Calling(j, "listThenRun")
      BY <1>1
    <3> HIDE DEF c
    <3>3. PICK on \in Job :
             /\ jobs' = [jobs EXCEPT ![j] = on]
             /\ Planned(on.calls)
             /\ "listThenRun" \in {"listThenRun"} => CallIs(on, "run")
             /\ MayOpen(on) => on.context = c /\ "listThenRun" \in Makes \union {"listThenRun"}
      BY <3>1, <3>2, JobGoesOn
    <3> QED BY <3>3
  <2>2. MayOpen(new)
    BY <2>1 DEF MayOpen, MayRun
  <2> QED BY <2>1, <2>2
<1>4. JobsApart' /\ jobs' \in [Jobs -> Job]
  <2>1. \A k \in Jobs : k # j /\ Running(k) => jobs[k].context # new.context
    BY <1>1, <1>3 DEF DesktopInv, JobsApart
  <2>2. Len(service') \in Nat /\ Len(service) <= Len(service')
        /\ new.context \in 1 .. Len(service')
    BY <1>1, <1>2, <1>3
  <2> QED BY <1>3, <2>1, <2>2, OneJobApart
<1>5. IndicatorsAreTruthful'
  <2>1. \A k \in Jobs : jobs'[k] = IF k = j THEN new ELSE jobs[k]
    BY <1>3 DEF DesktopInv, DesktopTypeOK
  <2>2. \A k \in Jobs : Calling(k, "run")' <=> k = j \/ Calling(k, "run")
    BY <1>3, <2>1 DEF Calling, Free, CallIs
  <2>3. \A k \in Jobs : Calling(k, "run") => k # j
    BY <1>1 DEF Calling
  <2>4. {jobs'[k].context : k \in {l \in Jobs : Calling(l, "run")'}}
          = {jobs[k].context : k \in {l \in Jobs : Calling(l, "run")}} \union {c}
    BY <1>3, <2>1, <2>2, <2>3
  <2> QED BY <1>2, <2>2, <2>4 DEF DesktopInv, IndicatorsAreTruthful
<1>6. wm' \in WindowsState /\ Stacked(wm') /\ listed' \in Nat
  BY <1>1, ListsAndOpensStacked DEF ListLandsAndRuns
<1>7. DesktopTypeOK'
  <2>1. activity' \subseteq Nat
    BY <1>1, <1>2 DEF DesktopInv, DesktopTypeOK
  <2> QED BY <1>2, <1>4, <1>6, <2>1 DEF DesktopInv, DesktopTypeOK, bounds
<1> QED BY <1>4, <1>5, <1>6, <1>7 DEF DesktopInv, WindowsStacked

LEMMA RunEndsHolds ==
  ASSUME DesktopInv, NEW j \in Jobs, RunEnds(j)
  PROVE  DesktopInv'
<1> DEFINE c == jobs[j].context
<1>1. /\ Calling(j, "run") /\ Running(j) /\ c \in Nat /\ Len(service) \in Nat
  BY DEF RunEnds, DesktopInv, DesktopTypeOK, Running, Job
<1>2. /\ busy' = FALSE /\ activity' = activity \ {c}
      /\ UNCHANGED <<wm, viewport, service, listed, preview, bounds>>
      /\ jobs' = [jobs EXCEPT ![j] = Onward(j, c, Len(service))]
  BY DEF RunEnds, GoesOn
<1>3. PICK new \in Job :
         /\ jobs' = [jobs EXCEPT ![j] = new]
         /\ Planned(new.calls)
         /\ ~CallIs(new, "run") /\ ~MayOpen(new) /\ ~MayRun(new)
  <2>1. "run" \notin Makes \union {"listThenRun"}
    BY DEF Makes
  <2> QED BY <1>1, <1>2, <2>1, JobGoesOn
<1>4. JobsApart' /\ jobs' \in [Jobs -> Job]
  <2>1. Len(service') \in Nat /\ Len(service) <= Len(service')
    BY <1>1, <1>2
  <2> QED BY <1>3, <2>1, OneJobApart
<1>5. IndicatorsAreTruthful'
  <2>1. \A k \in Jobs : jobs'[k] = IF k = j THEN new ELSE jobs[k]
    BY <1>3 DEF DesktopInv, DesktopTypeOK
  <2>2. \A k \in Jobs : Calling(k, "run")' <=> k # j /\ Calling(k, "run")
    BY <1>3, <2>1 DEF Calling, Free, CallIs
  <2>3. \A k \in Jobs : k # j /\ Calling(k, "run") => jobs[k].context # c
    BY <1>1 DEF DesktopInv, JobsApart, Running
  <2>4. {jobs'[k].context : k \in {l \in Jobs : Calling(l, "run")'}}
          = {jobs[k].context : k \in {l \in Jobs : Calling(l, "run")}} \ {c}
    BY <1>1, <2>1, <2>2, <2>3
  <2> QED BY <1>2, <2>4 DEF DesktopInv, IndicatorsAreTruthful
<1>6. DesktopTypeOK' /\ WindowsStacked'
  BY <1>2, <1>4 DEF DesktopInv, DesktopTypeOK, WindowsStacked, bounds
<1> QED BY <1>4, <1>5, <1>6 DEF DesktopInv

LEMMA FindAnswersHolds ==
  ASSUME DesktopInv, NEW j \in Jobs, FindAnswers(j)
  PROVE  DesktopInv'
<1>0. /\ wm \in WindowsState /\ Stacked(wm) /\ viewport \in Int
      /\ jobs[j].count \in Nat /\ jobs[j].viewport \in Int /\ jobs[j].since \in Nat
  BY ViewportsAreNumbers DEF DesktopInv, DesktopTypeOK, WindowsStacked, Job
<1>1. /\ Calling(j, "find") /\ ~Calling(j, "run") /\ ~MayConfirm(jobs[j])
      /\ "find" \notin Makes \union {"listThenRun", "run"}
      /\ UNCHANGED <<viewport, service, listed, busy, activity, preview, bounds>>
  BY DEF FindAnswers, Calling, MayConfirm, CallIs, Makes
<1>2. /\ wm' \in WindowsState /\ Stacked(wm')
      /\ \/ Ends(j)
         \/ \E c \in Nat : jobs' = [jobs EXCEPT ![j] = Onward(j, c, jobs[j].since)]
  <2>1. CASE Ends(j) /\ wm' = wm
    BY <1>0, <2>1
  <2>2. ASSUME NEW c \in 1 .. Len(service), jobs[j].kind = "cliOpen",
               Ends(j),
               wm' = PulledBack(
                        Open(wm, ContextWindow(c),
                             Cascade(jobs[j].count, ContextWindow(c), jobs[j].viewport)),
                        IF Mounted(ContextWindow(c), listed)
                        THEN {ContextWindow(c)} \ IdsOf(wm) ELSE {}, viewport)
        PROVE  wm' \in WindowsState /\ Stacked(wm')
    BY <1>0, <2>2, MadeIsAContext, CascadeIsGeometry, OpenStacked, PulledBackStacked
  <2>3. ASSUME NEW c \in 1 .. Len(service), wm' = wm,
               jobs' = [jobs EXCEPT ![j] = Onward(j, c, jobs[j].since)]
        PROVE  c \in Nat /\ wm' \in WindowsState /\ Stacked(wm')
    BY <1>0, <2>3
  <2> QED BY <2>1, <2>2, <2>3 DEF FindAnswers
<1>3. JobsApart' /\ IndicatorsAreTruthful' /\ jobs' \in [Jobs -> Job]
  <2>1. CASE Ends(j)
    BY <1>1, <2>1, JobEnds
  <2>2. ASSUME NEW c \in Nat, jobs' = [jobs EXCEPT ![j] = Onward(j, c, jobs[j].since)]
        PROVE  JobsApart' /\ IndicatorsAreTruthful' /\ jobs' \in [Jobs -> Job]
    BY <1>0, <1>1, <2>2, QuietJobGoesOn
  <2> QED BY <1>2, <2>1, <2>2
<1>4. DesktopTypeOK'
  BY <1>1, <1>2, <1>3 DEF DesktopInv, DesktopTypeOK, bounds
<1> QED BY <1>2, <1>3, <1>4 DEF DesktopInv, WindowsStacked

LEMMA DesktopNextHolds == DesktopInv /\ [DesktopNext]_desktop => DesktopInv'
<1> SUFFICES ASSUME DesktopInv, [DesktopNext]_desktop PROVE DesktopInv'
  OBVIOUS
<1>1. CASE UNCHANGED desktop
  <2>1. JobsApart' /\ IndicatorsAreTruthful'
    BY <1>1, SameJobs DEF DesktopInv, DesktopTypeOK, desktop
  <2>2. DesktopTypeOK' /\ WindowsStacked'
    BY <1>1 DEF DesktopInv, DesktopTypeOK, WindowsStacked, desktop
  <2> QED BY <2>1, <2>2 DEF DesktopInv
<1>2. ASSUME NEW j \in Jobs, Answer(j) PROVE DesktopInv'
  BY <1>2, MakesContextHolds, EndingsHold, QuietAnswersHold, RunBeginsHolds, RunEndsHolds,
     FindAnswersHolds DEF Answer
<1> QED BY <1>1, <1>2, WindowStepHolds, BeginSomethingHolds DEF DesktopNext

-----------------------------------------------------------------------------
(* DesktopInv is an invariant of the desktop. *)
THEOREM DesktopInvariant == DesktopSpec => []DesktopInv
  BY DesktopInitHolds, DesktopNextHolds, PTL DEF DesktopSpec

(* The state of the desktop is always what its types say, with any number  *)
(* of contexts, of jobs in flight and of moves of the user.                *)
THEOREM DesktopTypes == DesktopSpec => []DesktopTypeOK
<1>1. DesktopInv => DesktopTypeOK
  BY DEF DesktopInv
<1> QED BY DesktopInvariant, <1>1, PTL

(* There is one window for a context, and the order of the stack is total, *)
(* whatever jobs end and open windows, and in whatever order.              *)
THEOREM WindowsAreStacked == DesktopSpec => []WindowsStacked
<1>1. DesktopInv => WindowsStacked
  BY DEF DesktopInv
<1> QED BY DesktopInvariant, <1>1, PTL

(* The form and the dialog are closed only while a run or a confirmed      *)
(* crystallization is working, and a title bar says "thinking" exactly     *)
(* while its run works.                                                    *)
THEOREM IndicatorsTellTheTruth == DesktopSpec => []IndicatorsAreTruthful
<1>1. DesktopInv => IndicatorsAreTruthful
  BY DEF DesktopInv
<1> QED BY DesktopInvariant, <1>1, PTL
=============================================================================
