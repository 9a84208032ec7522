----------------------- MODULE AutomationRulesProofs -----------------------
(***************************************************************************)
(* Proofs about the automation rules, for any rules, files and forms.      *)
(***************************************************************************)
EXTENDS AutomationRules, TLAPS

(* The loop writes a timer's file only after it has read it.               *)
TypeInv == TypeOK /\ (lpc = "writetimer" => gate # None)

(* A value is only read where there is one.                                *)
LEMMA DisabledType ==
  ASSUME NEW c \in RuleConfigs \cup {None}
  PROVE  /\ Disabled(c) \in RuleConfigs \cup {None}
         /\ c \in RuleConfigs => Disabled(c) \in RuleConfigs
BY RulesAssumption DEF Disabled, RuleConfigs

LEMMA DisabledTimerType ==
  ASSUME NEW c \in TimerConfigs PROVE Disabled(c) \in TimerConfigs
BY RulesAssumption DEF Disabled, TimerConfigs

(* A state of the bookkeeping stays one, whatever is done with it.         *)
RuleStates ==
  [hasResult : BOOLEAN, lastResult : BOOLEAN, fired : BOOLEAN,
   since : HoldAges, lastFired : CoolAges \cup {Never}]

LEMMA ResetType ==
  ASSUME NEW st \in RuleStates PROVE resetRuleConditionState(st) \in RuleStates
<1> 0 \in HoldAges
  BY RulesAssumption DEF HoldAges
<1> QED BY DEF RuleStates, resetRuleConditionState

LEMMA NoteType ==
  ASSUME NEW st \in RuleStates, NEW result \in BOOLEAN
  PROVE  NoteResult(st, result) \in RuleStates
<1> 0 \in HoldAges
  BY RulesAssumption DEF HoldAges
<1> QED BY DEF RuleStates, NoteResult

LEMMA FiredType ==
  ASSUME NEW st \in RuleStates, NEW c PROVE Fired(st, c) \in RuleStates
<1> 0 \in CoolAges
  BY RulesAssumption DEF CoolAges
<1> QED BY DEF RuleStates, Fired

(* The state and the seconds of a rule after a second or more.             *)
Later(st, d) ==
  [st EXCEPT !.since = IF st.hasResult THEN Older(@, d, MaxHold) ELSE @,
             !.lastFired = Older(@, d, MaxCooldown)]

LEMMA OlderType ==
  ASSUME NEW max \in Nat, NEW a \in 0..max, NEW d \in Nat \ {0}
  PROVE  /\ Older(a, d, max) \in 0..max
         /\ a # 0 => Older(a, d, max) # 0
         /\ Older(Never, d, max) = Never
BY RulesAssumption DEF Older, Never

LEMMA LaterType ==
  ASSUME NEW st \in RuleStates, NEW d \in 1..MaxStep
  PROVE  Later(st, d) \in RuleStates
<1>1. d \in Nat \ {0} /\ MaxHold \in Nat /\ MaxCooldown \in Nat
  BY RulesAssumption
<1>2. st.since \in HoldAges /\ st.lastFired \in CoolAges \cup {Never}
  BY DEF RuleStates
<1>3. /\ Older(st.since, d, MaxHold) \in HoldAges
      /\ Older(st.lastFired, d, MaxCooldown) \in CoolAges \cup {Never}
  BY <1>1, <1>2, OlderType DEF HoldAges, CoolAges
<1> QED BY <1>3 DEF Later, RuleStates

LEMMA ActionKnown ==
  ASSUME NEW c \in RuleConfigs \cup {NotLoaded}, InForce(c), NEW result
  PROVE  Wanted(c, result) \in Levels
<1>1. c.action \in {"ON", "OFF", "TOGGLE"}
  BY DEF InForce, RuleConfigs
<1> QED BY <1>1 DEF Wanted, Levels, Not

LEMMA DeedType ==
  ASSUME NEW c \in RuleConfigs, NEW fate \in {"driven", "dropped"}
  PROVE  Deed(fate, c) \in Deeds
BY DEF Deed, Deeds, RuleConfigs

LEMMA OvertakeType ==
  ASSUME NEW y, NEW d \in [Rules -> Deeds \cup {NoDeed}]
  PROVE  Overtake(y, d) \in [Rules -> Deeds \cup {NoDeed}]
BY DEF Overtake, Deeds

(* What one evaluation of a rule does, with the result it came to.         *)
LEMMA Evaluated ==
  ASSUME NEW now, EvaluateRule(now)
  PROVE  /\ lpc = "rules" /\ InForce(rules[at]) /\ GoOn(at)
         /\ UNCHANGED <<files, caches, sensors, local, gate, request, left,
                       suspended, crossed>>
         /\ \E result \in BOOLEAN : Conclude(rules[at], result)
<1>1. \A v : Result(rules[at], v, now) \in BOOLEAN
  BY DEF Result
<1> QED BY <1>1 DEF EvaluateRule

LEMMA GoOnType ==
  ASSUME at \in Rules, GoOn(at)
  PROVE  lpc' \in {"watch", "rules"} /\ at' \in Rules
BY RulesAssumption DEF GoOn, Rules

-----------------------------------------------------------------------------
LEMMA TypeInit == Init => TypeInv
<1> SUFFICES ASSUME Init PROVE TypeInv
  OBVIOUS
<1>0. 1 \in Rules /\ 0 \in HoldAges /\ 0 \in CoolAges
  BY RulesAssumption DEF Rules, HoldAges, CoolAges
<1>1. /\ ruleFile \in [Rules -> RuleConfigs \cup {NoFile}]
      /\ timerFile \in [Timers -> TimerConfigs]
      /\ slotFile \subseteq Slots /\ topic \subseteq Slots
  BY RulesAssumption DEF Init
<1>2. /\ rules \in [Rules -> RuleConfigs \cup {NotLoaded}]
      /\ timers \in [Timers -> TimerConfigs \cup {NotLoaded}]
      /\ CalendarNotInitiated \in BOOLEAN /\ timeSet \in BOOLEAN
      /\ seen \in [Slots -> BOOLEAN] /\ cachedValue \in [Sources -> Values]
      /\ pin \in [Relays -> Levels] /\ lockupdate \in [Relays -> BOOLEAN]
  BY RulesAssumption DEF Init, BootInit, Levels, LOW
<1>3. ruleState \in [Rules -> RuleStates]
  BY <1>0 DEF Init, BootInit, NoResult, RuleStates
<1>4. /\ lpc = "calendar" /\ at \in Rules /\ local = NoFile /\ gate = None
      /\ request = Idle
  BY <1>0 DEF Init, BootInit
<1>5. Idle \in [pc : {"idle", "load", "store", "clear", "topics"}, rule : Rules,
                config : RuleConfigs \cup {NoFile}]
  BY <1>0 DEF Idle
<1>6. /\ left \in Nat /\ suspended \in [Rules -> BOOLEAN]
      /\ crossed \in [Rules -> BOOLEAN]
      /\ deed \in [Rules -> Deeds \cup {NoDeed}]
      /\ quiet \in [Rules -> CoolAges \cup {Never}]
  BY RulesAssumption DEF Init
<1> QED BY <1>1, <1>2, <1>3, <1>4, <1>5, <1>6 DEF TypeInv, TypeOK, RuleStates

-----------------------------------------------------------------------------
(* The type invariant, part by part.                                       *)
FilesOK ==
  /\ ruleFile \in [Rules -> RuleConfigs \cup {NoFile}]
  /\ timerFile \in [Timers -> TimerConfigs]
  /\ slotFile \subseteq Slots
CachesOK ==
  /\ rules \in [Rules -> RuleConfigs \cup {NotLoaded}]
  /\ timers \in [Timers -> TimerConfigs \cup {NotLoaded}]
  /\ CalendarNotInitiated \in BOOLEAN /\ timeSet \in BOOLEAN
StateOK == ruleState \in [Rules -> RuleStates]
SensorsOK ==
  /\ topic \subseteq Slots /\ seen \in [Slots -> BOOLEAN]
  /\ cachedValue \in [Sources -> Values]
OutputsOK == pin \in [Relays -> Levels] /\ lockupdate \in [Relays -> BOOLEAN]
LoopOK ==
  /\ lpc \in {"calendar", "load", "store", "loaded", "rules", "read", "write",
              "disable", "readtimer", "writetimer", "cachetimer", "watch"}
  /\ at \in Rules
  /\ local \in RuleConfigs \cup {NoFile}
  /\ gate \in [timer : Timers, config : TimerConfigs] \cup {None}
  /\ lpc = "writetimer" => gate # None
RequestOK ==
  request \in [pc : {"idle", "load", "store", "clear", "topics"}, rule : Rules,
               config : RuleConfigs \cup {NoFile}]
LeftOK == left \in Nat
HistoryOK ==
  /\ suspended \in [Rules -> BOOLEAN]
  /\ crossed \in [Rules -> BOOLEAN]
  /\ deed \in [Rules -> Deeds \cup {NoDeed}]
  /\ quiet \in [Rules -> CoolAges \cup {Never}]

TypeParts ==
  /\ FilesOK /\ CachesOK /\ StateOK /\ SensorsOK /\ OutputsOK /\ LoopOK
  /\ RequestOK /\ LeftOK /\ HistoryOK

LEMMA TypeSplit == TypeInv <=> TypeParts
BY DEF TypeInv, TypeOK, TypeParts, FilesOK, CachesOK, StateOK, SensorsOK,
       OutputsOK,
       LoopOK, RequestOK, LeftOK, HistoryOK, RuleStates

LEMMA TypeStep == TypeParts /\ [Next]_vars => TypeParts'
<1> SUFFICES ASSUME TypeParts, [Next]_vars PROVE TypeParts'
  OBVIOUS
<1> USE DEF TypeParts
<1>0. 1 \in Rules /\ 0 \in HoldAges /\ 0 \in CoolAges
  BY RulesAssumption DEF Rules, HoldAges, CoolAges
<1>1. CASE StartReload
  <2>1. /\ FilesOK' /\ StateOK' /\ SensorsOK' /\ OutputsOK' /\ RequestOK'
        /\ LeftOK' /\ HistoryOK'
    BY <1>1
       DEF StartReload, files, caches, sensors, outputs, looping, history,
           FilesOK, StateOK, SensorsOK, OutputsOK, RequestOK, LeftOK, HistoryOK
  <2>2. CachesOK'
    BY <1>0, <1>1 DEF StartReload, CachesOK, FilesOK
  <2>3. LoopOK'
    BY <1>0, <1>1 DEF StartReload, LoopOK
  <2> QED BY <2>1, <2>2, <2>3 DEF TypeParts
<1>2. CASE NoReload
  <2>1. /\ FilesOK' /\ CachesOK' /\ StateOK' /\ SensorsOK' /\ OutputsOK'
        /\ RequestOK' /\ LeftOK' /\ HistoryOK'
    BY <1>2
       DEF NoReload, files, caches, sensors, outputs, looping, history, FilesOK,
           CachesOK, StateOK, SensorsOK, OutputsOK, RequestOK, LeftOK, HistoryOK
  <2>2. LoopOK'
    BY <1>0, <1>2 DEF NoReload, LoopOK
  <2> QED BY <2>1, <2>2 DEF TypeParts
<1>3. CASE LoadRule
  <2>1. /\ FilesOK' /\ CachesOK' /\ StateOK' /\ SensorsOK' /\ OutputsOK'
        /\ RequestOK' /\ LeftOK'
    BY <1>3
       DEF LoadRule, files, caches, sensors, outputs, looping, history, FilesOK,
           CachesOK, StateOK, SensorsOK, OutputsOK, RequestOK, LeftOK
  <2>2. LoopOK'
    BY <1>0, <1>3 DEF LoadRule, LoopOK, FilesOK
  <2>3. HistoryOK'
    BY <1>0, <1>3 DEF LoadRule, HistoryOK, Meets
  <2> QED BY <2>1, <2>2, <2>3 DEF TypeParts
<1>4. CASE StoreRule
  <2>1. /\ FilesOK' /\ StateOK' /\ SensorsOK' /\ OutputsOK' /\ RequestOK'
        /\ LeftOK'
    BY <1>4
       DEF StoreRule, files, caches, sensors, outputs, looping, history,
           FilesOK, StateOK, SensorsOK, OutputsOK, RequestOK, LeftOK
  <2>2. CachesOK'
    BY <1>0, <1>4 DEF StoreRule, CachesOK, LoopOK, NoFile, NotLoaded
  <2>3. LoopOK'
    BY <1>0, <1>4, RulesAssumption DEF StoreRule, LoopOK, Rules
  <2>4. HistoryOK'
    BY <1>0, <1>4 DEF StoreRule, HistoryOK, Meets
  <2> QED BY <2>1, <2>2, <2>3, <2>4 DEF TypeParts
<1>5. CASE EndReload
  <2>1. /\ FilesOK' /\ StateOK' /\ SensorsOK' /\ OutputsOK' /\ RequestOK'
        /\ LeftOK' /\ HistoryOK'
    BY <1>5
       DEF EndReload, files, caches, sensors, outputs, looping, history,
           FilesOK, StateOK, SensorsOK, OutputsOK, RequestOK, LeftOK, HistoryOK
  <2>2. CachesOK'
    BY <1>0, <1>5 DEF EndReload, CachesOK
  <2>3. LoopOK'
    BY <1>0, <1>5 DEF EndReload, LoopOK
  <2> QED BY <2>1, <2>2, <2>3 DEF TypeParts
<1>6. CASE SkipRule
  <2>1. /\ FilesOK' /\ CachesOK' /\ SensorsOK' /\ OutputsOK' /\ RequestOK'
        /\ LeftOK' /\ HistoryOK'
    BY <1>6
       DEF SkipRule, files, caches, sensors, outputs, looping, history, FilesOK,
           CachesOK, SensorsOK, OutputsOK, RequestOK, LeftOK, HistoryOK
  <2>2. StateOK'
    BY <1>0, <1>6, ResetType DEF SkipRule, StateOK, LoopOK
  <2>3. LoopOK'
    BY <1>0, <1>6, GoOnType DEF SkipRule, LoopOK
  <2> QED BY <2>1, <2>2, <2>3 DEF TypeParts
<1>7. CASE MissSource
  <2>1. /\ FilesOK' /\ CachesOK' /\ SensorsOK' /\ OutputsOK' /\ RequestOK'
        /\ LeftOK' /\ HistoryOK'
    BY <1>7
       DEF MissSource, files, caches, sensors, outputs, looping, history,
           FilesOK, CachesOK, SensorsOK, OutputsOK, RequestOK, LeftOK, HistoryOK
  <2>2. StateOK'
    BY <1>0, <1>7, ResetType DEF MissSource, StateOK, LoopOK
  <2>3. LoopOK'
    BY <1>0, <1>7, GoOnType DEF MissSource, LoopOK
  <2> QED BY <2>1, <2>2, <2>3 DEF TypeParts
<1>8. ASSUME NEW now \in Nows, EvaluateRule(now) PROVE TypeParts'
  <2>1. FilesOK' /\ CachesOK' /\ SensorsOK' /\ RequestOK' /\ LeftOK'
    BY <1>8, Evaluated
       DEF files, caches, sensors, FilesOK, CachesOK, SensorsOK, RequestOK, LeftOK
  <2> DEFINE c == rules[at]
             y == c.targetRelay
  <2>r. PICK result \in BOOLEAN : Conclude(c, result)
    BY <1>8, Evaluated
  <2> DEFINE st == NoteResult(ruleState[at], result)
  <2>c. st \in RuleStates /\ c \in RuleConfigs /\ InForce(c)
    BY <1>8, Evaluated, NoteType
       DEF StateOK, LoopOK, CachesOK, InForce, NotLoaded
  <2>2. StateOK'
    <3>1. ruleState' \in {[ruleState EXCEPT ![at] = Fired(st, c)],
                         [ruleState EXCEPT ![at] = st]}
      BY <2>r DEF Conclude
    <3> QED BY <2>c, <3>1, FiredType DEF StateOK, LoopOK
  <2>w. Wanted(c, result) \in Levels
    BY <2>c, ActionKnown
  <2>3. OutputsOK'
    <3>1. mdigitalWrite(y, Wanted(c, result)) \/ UNCHANGED outputs
      BY <2>r DEF Conclude
    <3> QED BY <2>w, <3>1 DEF mdigitalWrite, outputs, OutputsOK
  <2>4. LoopOK'
    BY <1>0, <1>8, Evaluated, GoOnType DEF LoopOK
  <2>5. HistoryOK'
    <3>1. /\ UNCHANGED <<suspended, crossed>>
          /\ deed' \in {deed, [deed EXCEPT ![at] = Deed("dropped", c)],
                        [Overtake(y, deed) EXCEPT ![at] = Deed("driven", c)]}
          /\ quiet' \in {quiet, [quiet EXCEPT ![at] = 0]}
      BY <1>8, <2>r, Evaluated DEF Conclude
    <3>2. Overtake(y, deed) \in [Rules -> Deeds \cup {NoDeed}]
      BY OvertakeType DEF HistoryOK
    <3>3. Deed("dropped", c) \in Deeds /\ Deed("driven", c) \in Deeds
      BY <2>c, DeedType
    <3> QED BY <1>0, <3>1, <3>2, <3>3 DEF HistoryOK
  <2> QED BY <2>1, <2>2, <2>3, <2>4, <2>5 DEF TypeParts
<1>9. CASE ReadRuleFile
  <2>1. /\ FilesOK' /\ CachesOK' /\ StateOK' /\ SensorsOK' /\ OutputsOK'
        /\ RequestOK' /\ LeftOK'
    BY <1>9
       DEF ReadRuleFile, files, caches, sensors, outputs, looping, history,
           FilesOK, CachesOK, StateOK, SensorsOK, OutputsOK, RequestOK, LeftOK
  <2>2. LoopOK'
    BY <1>0, <1>9 DEF ReadRuleFile, LoopOK, FilesOK
  <2>3. HistoryOK'
    BY <1>0, <1>9 DEF ReadRuleFile, HistoryOK, Meets
  <2> QED BY <2>1, <2>2, <2>3 DEF TypeParts
<1>10. CASE WriteRuleFile
  <2>1. /\ CachesOK' /\ StateOK' /\ SensorsOK' /\ OutputsOK' /\ RequestOK'
        /\ LeftOK'
    BY <1>10
       DEF WriteRuleFile, files, caches, sensors, outputs, looping, history,
           CachesOK, StateOK, SensorsOK, OutputsOK, RequestOK, LeftOK
  <2>2. FilesOK'
    BY <1>0, <1>10, DisabledType DEF WriteRuleFile, FilesOK, LoopOK
  <2>3. LoopOK'
    BY <1>0, <1>10 DEF WriteRuleFile, LoopOK
  <2>4. HistoryOK'
    BY <1>0, <1>10 DEF WriteRuleFile, HistoryOK, Meets
  <2> QED BY <2>1, <2>2, <2>3, <2>4 DEF TypeParts
<1>11. CASE DisableRule
  <2>1. FilesOK' /\ SensorsOK' /\ OutputsOK' /\ RequestOK' /\ LeftOK'
    BY <1>11
       DEF DisableRule, files, caches, sensors, outputs, looping, history,
           FilesOK, SensorsOK, OutputsOK, RequestOK, LeftOK
  <2>2. CachesOK'
    BY <1>0, <1>11, DisabledType DEF DisableRule, CachesOK, LoopOK, NotLoaded
  <2>3. StateOK'
    BY <1>0, <1>11, ResetType DEF DisableRule, StateOK, LoopOK, EndSuspension
  <2>4. LoopOK'
    BY <1>0, <1>11, GoOnType DEF DisableRule, LoopOK, EndSuspension
  <2>5. HistoryOK'
    BY <1>0, <1>11 DEF DisableRule, HistoryOK, Meets
  <2> QED BY <2>1, <2>2, <2>3, <2>4, <2>5 DEF TypeParts
<1>12. CASE ReadTimerFile
  <2>1. /\ FilesOK' /\ CachesOK' /\ StateOK' /\ SensorsOK' /\ OutputsOK'
        /\ RequestOK' /\ LeftOK' /\ HistoryOK'
    BY <1>12
       DEF ReadTimerFile, files, caches, sensors, outputs, looping, history,
           FilesOK, CachesOK, StateOK, SensorsOK, OutputsOK, RequestOK, LeftOK,
           HistoryOK
  <2>2. LoopOK'
    <3>1. CASE Gated(rules[at])
      <4>1. [timer |-> rules[at].gate, config |-> timerFile[rules[at].gate]]
              \in [timer : Timers, config : TimerConfigs]
        BY <3>1 DEF Gated, FilesOK
      <4>2. None # [timer |-> rules[at].gate, config |-> timerFile[rules[at].gate]]
        BY <4>1, RulesAssumption
      <4> QED BY <1>12, <3>1, <4>1, <4>2 DEF ReadTimerFile, LoopOK
    <3>2. CASE ~Gated(rules[at])
      BY <1>12, <3>2 DEF ReadTimerFile, LoopOK
    <3> QED BY <3>1, <3>2
  <2> QED BY <2>1, <2>2 DEF TypeParts
<1>13. CASE WriteTimerFile
  <2>1. /\ CachesOK' /\ StateOK' /\ SensorsOK' /\ OutputsOK' /\ RequestOK'
        /\ LeftOK' /\ HistoryOK'
    BY <1>13
       DEF WriteTimerFile, files, caches, sensors, outputs, looping, history,
           CachesOK, StateOK, SensorsOK, OutputsOK, RequestOK, LeftOK, HistoryOK
  <2>2. FilesOK'
    BY <1>0, <1>13, DisabledTimerType DEF WriteTimerFile, FilesOK, LoopOK
  <2>3. LoopOK'
    BY <1>0, <1>13 DEF WriteTimerFile, LoopOK
  <2> QED BY <2>1, <2>2, <2>3 DEF TypeParts
<1>14. CASE CacheTimer
  <2>1. /\ FilesOK' /\ SensorsOK' /\ OutputsOK' /\ RequestOK' /\ LeftOK'
        /\ HistoryOK'
    BY <1>14
       DEF CacheTimer, files, caches, sensors, outputs, looping, history,
           FilesOK, SensorsOK, OutputsOK, RequestOK, LeftOK, HistoryOK
  <2>2. CachesOK'
    BY <1>0, <1>14 DEF CacheTimer, CachesOK, FilesOK
  <2>3. StateOK'
    BY <1>0, <1>14, ResetType DEF CacheTimer, StateOK, LoopOK, EndSuspension
  <2>4. LoopOK'
    BY <1>0, <1>14, GoOnType DEF CacheTimer, LoopOK, EndSuspension
  <2> QED BY <2>1, <2>2, <2>3, <2>4 DEF TypeParts
<1>15. ASSUME NEW d \in 1..MaxStep, Watch(d) PROVE TypeParts'
  <2>1. FilesOK' /\ CachesOK' /\ SensorsOK' /\ RequestOK' /\ LeftOK'
    BY <1>15
       DEF Watch, files, caches, sensors, outputs, looping, history, FilesOK,
           CachesOK, SensorsOK, RequestOK, LeftOK
  <2>2. StateOK'
    <3>1. ruleState' = [r \in Rules |-> Later(ruleState[r], d)]
      BY <1>15 DEF Watch, Later
    <3> QED BY <3>1, LaterType DEF StateOK
  <2>3. OutputsOK'
    BY <1>0, <1>15 DEF Watch, OutputsOK
  <2>4. LoopOK'
    BY <1>0, <1>15 DEF Watch, LoopOK
  <2>5. HistoryOK'
    <3>1. ASSUME NEW r \in Rules
          PROVE  Older(quiet[r], d, MaxCooldown) \in CoolAges \cup {Never}
      <4>1. d \in Nat \ {0} /\ MaxCooldown \in Nat
        BY RulesAssumption
      <4>2. quiet[r] \in CoolAges \/ quiet[r] = Never
        BY DEF HistoryOK
      <4> QED BY <4>1, <4>2, OlderType DEF CoolAges
    <3> QED BY <1>15, <3>1 DEF Watch, HistoryOK
  <2> QED BY <2>1, <2>2, <2>3, <2>4, <2>5 DEF TypeParts
<1>16. CASE SaveRule
  <2>1. CachesOK' /\ StateOK' /\ SensorsOK' /\ OutputsOK' /\ LoopOK'
    BY <1>16
       DEF SaveRule, files, caches, sensors, outputs, looping, history,
           CachesOK, StateOK, SensorsOK, OutputsOK, LoopOK
  <2>2. FilesOK'
    BY <1>0, <1>16, RulesAssumption DEF SaveRule, FilesOK, Refresh
  <2>3. RequestOK'
    BY <1>0, <1>16, RulesAssumption DEF SaveRule, RequestOK, Refresh, Idle
  <2>4. LeftOK'
    BY <1>0, <1>16 DEF SaveRule, LeftOK, Event
  <2>5. HistoryOK'
    BY <1>0, <1>16, RulesAssumption DEF SaveRule, HistoryOK, Busy
  <2> QED BY <2>1, <2>2, <2>3, <2>4, <2>5 DEF TypeParts
<1>17. CASE LoadSaved
  <2>1. /\ FilesOK' /\ CachesOK' /\ StateOK' /\ SensorsOK' /\ OutputsOK'
        /\ LoopOK' /\ LeftOK' /\ HistoryOK'
    BY <1>17
       DEF LoadSaved, files, caches, sensors, outputs, looping, history,
           FilesOK, CachesOK, StateOK, SensorsOK, OutputsOK, LoopOK, LeftOK,
           HistoryOK
  <2>2. RequestOK'
    BY <1>0, <1>17 DEF LoadSaved, RequestOK, FilesOK
  <2> QED BY <2>1, <2>2 DEF TypeParts
<1>18. CASE StoreSaved
  <2>1. FilesOK' /\ StateOK' /\ SensorsOK' /\ OutputsOK' /\ LoopOK' /\ LeftOK'
    BY <1>18
       DEF StoreSaved, files, caches, sensors, outputs, looping, history,
           FilesOK, StateOK, SensorsOK, OutputsOK, LoopOK, LeftOK
  <2>2. CachesOK'
    BY <1>0, <1>18 DEF StoreSaved, CachesOK, RequestOK, NoFile, NotLoaded
  <2>3. RequestOK'
    BY <1>0, <1>18 DEF StoreSaved, RequestOK, Idle
  <2>4. HistoryOK'
    BY <1>0, <1>18 DEF StoreSaved, HistoryOK, history
  <2> QED BY <2>1, <2>2, <2>3, <2>4 DEF TypeParts
<1>19. CASE SaveTimer
  <2>1. /\ StateOK' /\ SensorsOK' /\ OutputsOK' /\ LoopOK' /\ RequestOK'
        /\ HistoryOK'
    BY <1>19
       DEF SaveTimer, files, caches, sensors, outputs, looping, history,
           StateOK, SensorsOK, OutputsOK, LoopOK, RequestOK, HistoryOK
  <2>2. FilesOK'
    BY <1>0, <1>19, RulesAssumption DEF SaveTimer, FilesOK
  <2>3. CachesOK'
    BY <1>0, <1>19 DEF SaveTimer, CachesOK
  <2>4. LeftOK'
    BY <1>0, <1>19 DEF SaveTimer, LeftOK, Event
  <2> QED BY <2>1, <2>2, <2>3, <2>4 DEF TypeParts
<1>20. CASE SaveSensors
  <2>1. /\ CachesOK' /\ StateOK' /\ SensorsOK' /\ OutputsOK' /\ LoopOK'
        /\ HistoryOK'
    BY <1>20
       DEF SaveSensors, files, caches, sensors, outputs, looping, history,
           CachesOK, StateOK, SensorsOK, OutputsOK, LoopOK, HistoryOK
  <2>2. FilesOK'
    BY <1>0, <1>20, RulesAssumption DEF SaveSensors, FilesOK
  <2>3. RequestOK'
    BY <1>0, <1>20 DEF SaveSensors, RequestOK, Idle
  <2>4. LeftOK'
    BY <1>0, <1>20 DEF SaveSensors, LeftOK, Event
  <2> QED BY <2>1, <2>2, <2>3, <2>4 DEF TypeParts
<1>21. CASE LoadTopics
  <2>1. /\ FilesOK' /\ CachesOK' /\ StateOK' /\ OutputsOK' /\ LoopOK' /\ LeftOK'
        /\ HistoryOK'
    BY <1>21
       DEF LoadTopics, files, caches, sensors, outputs, looping, history,
           FilesOK, CachesOK, StateOK, OutputsOK, LoopOK, LeftOK, HistoryOK
  <2>2. SensorsOK'
    BY <1>0, <1>21 DEF LoadTopics, SensorsOK, FilesOK
  <2>3. RequestOK'
    BY <1>0, <1>21 DEF LoadTopics, RequestOK, Idle
  <2> QED BY <2>1, <2>2, <2>3 DEF TypeParts
<1>22. CASE SensorMessage
  <2>1. /\ FilesOK' /\ CachesOK' /\ StateOK' /\ OutputsOK' /\ LoopOK'
        /\ RequestOK' /\ LeftOK' /\ HistoryOK'
    BY <1>22
       DEF SensorMessage, files, caches, sensors, outputs, looping, history,
           FilesOK, CachesOK, StateOK, OutputsOK, LoopOK, RequestOK, LeftOK,
           HistoryOK
  <2>2. SensorsOK'
    BY <1>0, <1>22 DEF SensorMessage, SensorsOK, Sources
  <2> QED BY <2>1, <2>2 DEF TypeParts
<1>23. CASE Measure
  <2>1. /\ FilesOK' /\ CachesOK' /\ StateOK' /\ OutputsOK' /\ LoopOK'
        /\ RequestOK' /\ LeftOK' /\ HistoryOK'
    BY <1>23
       DEF Measure, files, caches, sensors, outputs, looping, history, FilesOK,
           CachesOK, StateOK, OutputsOK, LoopOK, RequestOK, LeftOK, HistoryOK
  <2>2. SensorsOK'
    BY <1>0, <1>23 DEF Measure, SensorsOK, Sources
  <2> QED BY <2>1, <2>2 DEF TypeParts
<1>24. CASE SetTime
  <2>1. /\ FilesOK' /\ StateOK' /\ SensorsOK' /\ OutputsOK' /\ LoopOK'
        /\ RequestOK' /\ LeftOK' /\ HistoryOK'
    BY <1>24
       DEF SetTime, files, caches, sensors, outputs, looping, history, FilesOK,
           StateOK, SensorsOK, OutputsOK, LoopOK, RequestOK, LeftOK, HistoryOK
  <2>2. CachesOK'
    BY <1>0, <1>24 DEF SetTime, CachesOK
  <2> QED BY <2>1, <2>2 DEF TypeParts
<1>25. CASE Command
  <2>1. FilesOK' /\ CachesOK' /\ StateOK' /\ SensorsOK' /\ LoopOK' /\ RequestOK'
    BY <1>25
       DEF Command, files, caches, sensors, outputs, looping, history, FilesOK,
           CachesOK, StateOK, SensorsOK, LoopOK, RequestOK
  <2>2. OutputsOK'
    BY <1>0, <1>25 DEF Command, OutputsOK, mdigitalWrite
  <2>3. LeftOK'
    BY <1>0, <1>25 DEF Command, LeftOK, Event
  <2>4. HistoryOK'
    BY <1>0, <1>25, OvertakeType DEF Command, HistoryOK
  <2> QED BY <2>1, <2>2, <2>3, <2>4 DEF TypeParts
<1>26. CASE Restart
  <2>1. FilesOK'
    BY <1>26
       DEF Restart, files, caches, sensors, outputs, looping, history, FilesOK
  <2>2. CachesOK'
    BY <1>0, <1>26 DEF Restart, CachesOK
  <2>3. StateOK'
    BY <1>0, <1>26 DEF Restart, StateOK, NoResult, RuleStates
  <2>4. SensorsOK'
    BY <1>0, <1>26, RulesAssumption DEF Restart, SensorsOK, FilesOK, Sources
  <2>5. OutputsOK'
    BY <1>0, <1>26 DEF Restart, OutputsOK, Levels, LOW
  <2>6. LoopOK'
    BY <1>0, <1>26 DEF Restart, LoopOK
  <2>7. RequestOK'
    BY <1>0, <1>26 DEF Restart, RequestOK, Idle
  <2>8. LeftOK'
    BY <1>0, <1>26 DEF Restart, LeftOK, Event
  <2>9. HistoryOK'
    BY <1>0, <1>26 DEF Restart, HistoryOK
  <2> QED BY <2>1, <2>2, <2>3, <2>4, <2>5, <2>6, <2>7, <2>8, <2>9 DEF TypeParts
<1>27. CASE UNCHANGED vars
  BY <1>27
     DEF vars, files, caches, sensors, outputs, looping, history, FilesOK,
         CachesOK, StateOK, SensorsOK, OutputsOK,
     LoopOK, RequestOK, LeftOK, HistoryOK
<1>28. CASE ClearSlots
  <2>1. /\ FilesOK' /\ CachesOK' /\ StateOK' /\ OutputsOK' /\ LoopOK' /\ LeftOK'
        /\ HistoryOK'
    BY <1>28
       DEF ClearSlots, files, caches, sensors, outputs, looping, history,
           FilesOK, CachesOK, StateOK, OutputsOK, LoopOK, LeftOK, HistoryOK
  <2>2. SensorsOK'
    BY <1>0, <1>28, RulesAssumption DEF ClearSlots, SensorsOK, Sources
  <2>3. RequestOK'
    BY <1>0, <1>28 DEF ClearSlots, RequestOK, Idle
  <2> QED BY <2>1, <2>2, <2>3 DEF TypeParts
<1> QED
  BY <1>1, <1>2, <1>3, <1>4, <1>5, <1>6, <1>7, <1>8, <1>9, <1>10, <1>11, <1>12,
     <1>13, <1>14, <1>15, <1>16, <1>17, <1>18, <1>19, <1>20, <1>21, <1>22,
     <1>23, <1>24, <1>25, <1>26, <1>27, <1>28 DEF Next, Loop, Handler, Environment

-----------------------------------------------------------------------------
(* Where there is something: what is copied from a file is a rule, and the *)
(* loop writes only what it has read.                                      *)
Suspending == {"read", "write", "disable", "readtimer", "writetimer", "cachetimer"}

Present ==
  /\ lpc \in {"calendar", "loaded", "watch"} => at = 1
  /\ \A r \in Rules : rules[r] # None => ruleFile[r] # None
  /\ local # None => lpc \in {"store", "write"} /\ ruleFile[at] # None
  /\ lpc \in Suspending => rules[at] # None
  /\ lpc = "write" => local # None
  /\ request.pc \in {"load", "store"} => ruleFile[request.rule] # None
  /\ request.pc = "store" => request.config # None

LEMMA DisabledPresent ==
  ASSUME NEW c \in RuleConfigs \cup {None}, c # None
  PROVE  Disabled(c) # None /\ ~InForce(Disabled(c)) /\ Disabled(c) \in RuleConfigs
<1>1. c \in RuleConfigs
  OBVIOUS
<1>2. Disabled(c) \in RuleConfigs /\ Disabled(c).enabled = FALSE
  BY <1>1, RulesAssumption DEF Disabled, RuleConfigs
<1> QED BY <1>2, RulesAssumption DEF InForce

LEMMA PresentStep ==
  TypeParts /\ Present /\ [Next]_vars => Present'
<1> SUFFICES ASSUME TypeParts, Present, [Next]_vars PROVE Present'
  OBVIOUS
<1>1. CASE StartReload
  BY <1>1, RulesAssumption
     DEF Present, StartReload, TypeParts, Suspending, Rules, NoFile, NotLoaded,
         files, caches, sensors, outputs, looping, history
<1>2. CASE NoReload
  BY <1>2, RulesAssumption
     DEF Present, NoReload, TypeParts, Suspending, Rules, NoFile, NotLoaded,
         files, caches, sensors, outputs, looping, history
<1>3. CASE LoadRule
  BY <1>3, RulesAssumption
     DEF Present, LoadRule, TypeParts, Suspending, Rules, NoFile, NotLoaded,
         files, caches, sensors, outputs, looping, history, LoopOK, CachesOK,
         FilesOK
<1>4. CASE StoreRule
  BY <1>4, RulesAssumption
     DEF Present, StoreRule, TypeParts, Suspending, Rules, NoFile, NotLoaded,
         files, caches, sensors, outputs, looping, history, LoopOK, CachesOK
<1>5. CASE EndReload
  BY <1>5, RulesAssumption
     DEF Present, EndReload, TypeParts, Suspending, Rules, NoFile, NotLoaded,
         files, caches, sensors, outputs, looping, history
<1>6. CASE SkipRule
  BY <1>6, RulesAssumption
     DEF Present, SkipRule, TypeParts, Suspending, Rules, NoFile, NotLoaded,
         files, caches, sensors, outputs, looping, history, LoopOK, GoOn
<1>7. CASE MissSource
  BY <1>7, RulesAssumption
     DEF Present, MissSource, TypeParts, Suspending, Rules, NoFile, NotLoaded,
         files, caches, sensors, outputs, looping, history, LoopOK, GoOn,
         InForce
<1>8. ASSUME NEW now \in Nows, EvaluateRule(now) PROVE Present'
  BY <1>8, Evaluated, RulesAssumption
     DEF Present, TypeParts, Suspending, Rules, NoFile, NotLoaded,
         files, caches, sensors, outputs, looping, history, LoopOK, GoOn
<1>9. CASE ReadRuleFile
  BY <1>9, RulesAssumption
     DEF Present, ReadRuleFile, TypeParts, Suspending, Rules, NoFile, NotLoaded,
         files, caches, sensors, outputs, looping, history, LoopOK, FilesOK
<1>10. CASE WriteRuleFile
  BY <1>10, DisabledPresent, RulesAssumption
     DEF Present, WriteRuleFile, TypeParts, Suspending, Rules, NoFile,
         NotLoaded, files, caches, sensors, outputs, looping, history, LoopOK,
         FilesOK
<1>11. CASE DisableRule
  BY <1>11, DisabledPresent, RulesAssumption
     DEF Present, DisableRule, TypeParts, Suspending, Rules, NoFile, NotLoaded,
         files, caches, sensors, outputs, looping, history, LoopOK, CachesOK,
         EndSuspension, GoOn
<1>12. CASE ReadTimerFile
  BY <1>12, RulesAssumption
     DEF Present, ReadTimerFile, TypeParts, Suspending, Rules, NoFile,
         NotLoaded, files, caches, sensors, outputs, looping, history, LoopOK
<1>13. CASE WriteTimerFile
  BY <1>13, RulesAssumption
     DEF Present, WriteTimerFile, TypeParts, Suspending, Rules, NoFile,
         NotLoaded, files, caches, sensors, outputs, looping, history
<1>14. CASE CacheTimer
  BY <1>14, RulesAssumption
     DEF Present, CacheTimer, TypeParts, Suspending, Rules, NoFile, NotLoaded,
         files, caches, sensors, outputs, looping, history, LoopOK,
         EndSuspension, GoOn
<1>15. ASSUME NEW d \in 1..MaxStep, Watch(d) PROVE Present'
  BY <1>15, RulesAssumption
     DEF Present, Watch, TypeParts, Suspending, Rules, NoFile, NotLoaded, files,
         caches, sensors, outputs, looping, history
<1>16. CASE SaveRule
  BY <1>16, RulesAssumption
     DEF Present, SaveRule, TypeParts, Suspending, Rules, NoFile, NotLoaded,
         files, caches, sensors, outputs, looping, history, FilesOK, LoopOK,
         Refresh, Idle
<1>17. CASE LoadSaved
  BY <1>17, RulesAssumption
     DEF Present, LoadSaved, TypeParts, Suspending, Rules, NoFile, NotLoaded,
         files, caches, sensors, outputs, looping, history, RequestOK
<1>18. CASE StoreSaved
  <2>1. /\ request.config # None /\ ruleFile[request.rule] # None
        /\ request.rule \in Rules
    BY <1>18 DEF TypeParts, StoreSaved, Present, RequestOK
  <2>2. /\ request'.pc = "idle"
        /\ rules' = [rules EXCEPT ![request.rule] = request.config]
        /\ UNCHANGED <<ruleFile, lpc, at, local>>
    BY <1>18 DEF StoreSaved, Idle, files, looping
  <2>3. \A r \in Rules : rules'[r] \in {rules[r], request.config}
    BY <2>2 DEF TypeParts, CachesOK
  <2>4. \A r \in Rules : rules[r] # None => rules'[r] # None
    BY <2>1, <2>3
  <2>5. \A r \in Rules : rules'[r] # None => ruleFile[r] # None
    BY <2>1, <2>2 DEF TypeParts, CachesOK, Present
  <2> QED BY <2>2, <2>4, <2>5 DEF TypeParts, Present, LoopOK
<1>19. CASE SaveTimer
  BY <1>19, RulesAssumption
     DEF Present, SaveTimer, TypeParts, Suspending, Rules, NoFile, NotLoaded,
         files, caches, sensors, outputs, looping, history
<1>20. CASE SaveSensors
  BY <1>20, RulesAssumption
     DEF Present, SaveSensors, TypeParts, Suspending, Rules, NoFile, NotLoaded,
         files, caches, sensors, outputs, looping, history, Idle
<1>21. CASE LoadTopics
  BY <1>21, RulesAssumption
     DEF Present, LoadTopics, TypeParts, Suspending, Rules, NoFile, NotLoaded,
         files, caches, sensors, outputs, looping, history, Idle
<1>22. CASE SensorMessage
  BY <1>22, RulesAssumption
     DEF Present, SensorMessage, TypeParts, Suspending, Rules, NoFile,
         NotLoaded, files, caches, sensors, outputs, looping, history
<1>23. CASE Measure
  BY <1>23, RulesAssumption
     DEF Present, Measure, TypeParts, Suspending, Rules, NoFile, NotLoaded,
         files, caches, sensors, outputs, looping, history
<1>24. CASE SetTime
  BY <1>24, RulesAssumption
     DEF Present, SetTime, TypeParts, Suspending, Rules, NoFile, NotLoaded,
         files, caches, sensors, outputs, looping, history
<1>25. CASE Command
  BY <1>25, RulesAssumption
     DEF Present, Command, TypeParts, Suspending, Rules, NoFile, NotLoaded,
         files, caches, sensors, outputs, looping, history
<1>26. CASE Restart
  BY <1>26, RulesAssumption
     DEF Present, Restart, TypeParts, Suspending, Rules, NoFile, NotLoaded,
         files, caches, sensors, outputs, looping, history, Idle, FilesOK
<1>27. CASE UNCHANGED vars
  BY <1>27
     DEF Present, vars, Suspending, Rules, NoFile, NotLoaded, files, caches,
         sensors, outputs, looping, history
<1>28. CASE ClearSlots
  BY <1>28, RulesAssumption
     DEF Present, ClearSlots, TypeParts, Suspending, Rules, NoFile, NotLoaded,
         files, caches, sensors, outputs, looping, history, Idle
<1> QED
  BY <1>1, <1>2, <1>3, <1>4, <1>5, <1>6, <1>7, <1>8, <1>9, <1>10, <1>11, <1>12,
     <1>13, <1>14, <1>15, <1>16, <1>17, <1>18, <1>19, <1>20, <1>21, <1>22,
     <1>23, <1>24, <1>25, <1>26, <1>27, <1>28 DEF Next, Loop, Handler, Environment

-----------------------------------------------------------------------------
(* The cache and the file: where they may differ, and what the copies      *)
(* under way hold.                                                         *)
Loaded(r) ==
  \/ ~CalendarNotInitiated
  \/ rules[r] # None
  \/ lpc = "loaded"
  \/ lpc \in {"load", "store"} /\ r < at

InStep ==
  /\ \A r \in Rules : /\ Loaded(r) /\ ~Busy(r) /\ ~Meets(r) /\ ~crossed[r]
                      => rules[r] = ruleFile[r]
  /\ lpc = "store" /\ ~crossed[at] => local = ruleFile[at]
  /\ lpc = "write" /\ ~crossed[at] => local = ruleFile[at] /\ rules[at] = local
  /\ lpc = "disable" /\ ~crossed[at] => Disabled(rules[at]) = ruleFile[at]
  /\ request.pc = "store" /\ ~crossed[request.rule]
       => request.config = ruleFile[request.rule]
  /\ \A r \in Rules : Busy(r) /\ Meets(r) => crossed[r]

LEMMA InStepStep ==
  TypeParts /\ Present /\ InStep /\ [Next]_vars => InStep'
<1> SUFFICES ASSUME TypeParts, Present, InStep, [Next]_vars PROVE InStep'
  OBVIOUS
<1>1. CASE StartReload
  BY <1>1, RulesAssumption
     DEF InStep, StartReload, TypeParts, Loaded, Busy, Meets, Rules, Present,
         NoFile, NotLoaded, files, caches, sensors, outputs, looping, history
<1>2. CASE NoReload
  BY <1>2, RulesAssumption
     DEF InStep, NoReload, TypeParts, Loaded, Busy, Meets, Rules, Present,
         NoFile, NotLoaded, files, caches, sensors, outputs, looping, history
<1>3. CASE LoadRule
  <2>1. /\ lpc = "load" /\ lpc' = "store" /\ local' = ruleFile[at] /\ at \in Rules
        /\ crossed' = [crossed EXCEPT ![at] = Meets(at)]
        /\ UNCHANGED <<rules, ruleFile, at, request, CalendarNotInitiated>>
    BY <1>3 DEF TypeParts, LoadRule, LoopOK, files, caches
  <2>2. \A r \in Rules : /\ (Meets(r)' <=> Meets(r))
                         /\ (Busy(r)' <=> r = at)
                         /\ ~Busy(r)
                         /\ (Loaded(r)' <=> Loaded(r))
    BY <2>1 DEF Loaded, Busy, Meets
  <2>3. \A r \in Rules : /\ r = at => (crossed'[r] <=> Meets(at))
                         /\ r # at => (crossed'[r] <=> crossed[r])
    BY <2>1 DEF TypeParts, HistoryOK
  <2>4. \A r \in Rules : /\ Loaded(r)' /\ ~Busy(r)' /\ ~Meets(r)' /\ ~crossed'[r]
                         => rules'[r] = ruleFile'[r]
    BY <2>1, <2>2, <2>3 DEF InStep
  <2>5. request'.pc = "store" /\ ~crossed'[request'.rule]
          => request'.config = ruleFile'[request'.rule]
    <3> SUFFICES ASSUME request.pc = "store", ~crossed'[request.rule]
                 PROVE  request.config = ruleFile[request.rule]
      BY <2>1
    <3>1. request.rule \in Rules
      BY DEF TypeParts, RequestOK
    <3>2. request.rule # at
      <4>1. SUFFICES ASSUME request.rule = at PROVE FALSE
        OBVIOUS
      <4>2. Meets(at)
        BY <4>1 DEF Meets
      <4> QED BY <2>1, <2>3, <4>1, <4>2
    <3> QED BY <2>3, <3>1, <3>2 DEF InStep
  <2> QED BY <2>1, <2>2, <2>3, <2>4, <2>5 DEF InStep
<1>4. CASE StoreRule
  BY <1>4, RulesAssumption
     DEF InStep, StoreRule, TypeParts, Loaded, Busy, Meets, Rules, Present,
         NoFile, NotLoaded, files, caches, sensors, outputs, looping, history,
         LoopOK, CachesOK, HistoryOK
<1>5. CASE EndReload
  <2>1. /\ lpc = "loaded" /\ lpc' = "rules"
        /\ UNCHANGED <<rules, ruleFile, at, request, crossed, local>>
    BY <1>5 DEF EndReload, files, history
  <2>2. ASSUME NEW r \in Rules, ~Meets(r)', ~crossed'[r]
        PROVE  rules'[r] = ruleFile'[r]
    <3>1. Loaded(r)
      BY <2>1 DEF Loaded
    <3>2. ~Busy(r)
      BY <2>1 DEF Busy
    <3>3. ~Meets(r) /\ ~crossed[r]
      BY <2>1, <2>2 DEF Meets
    <3> QED BY <2>1, <3>1, <3>2, <3>3 DEF InStep
  <2>3. ASSUME NEW r \in Rules PROVE ~Busy(r)'
    BY <2>1 DEF Busy
  <2>4. request'.pc = "store" /\ ~crossed'[request'.rule]
          => request'.config = ruleFile'[request'.rule]
    BY <2>1 DEF InStep
  <2> QED BY <2>1, <2>2, <2>3, <2>4 DEF InStep
<1>6. CASE SkipRule
  BY <1>6, RulesAssumption
     DEF InStep, SkipRule, TypeParts, Loaded, Busy, Meets, Rules, Present,
         NoFile, NotLoaded, files, caches, sensors, outputs, looping, history,
         LoopOK, GoOn
<1>7. CASE MissSource
  BY <1>7, RulesAssumption
     DEF InStep, MissSource, TypeParts, Loaded, Busy, Meets, Rules, Present,
         NoFile, NotLoaded, files, caches, sensors, outputs, looping, history,
         LoopOK, GoOn, InForce
<1>8. ASSUME NEW now \in Nows, EvaluateRule(now) PROVE InStep'
  BY <1>8, Evaluated, RulesAssumption
     DEF InStep, TypeParts, Loaded, Busy, Meets, Rules, Present,
         NoFile, NotLoaded, files, caches, sensors, outputs, looping, history,
         LoopOK, GoOn
<1>9. CASE ReadRuleFile
  <2>1. /\ lpc = "read" /\ lpc' = "write" /\ local' = ruleFile[at] /\ at \in Rules
        /\ crossed' = [crossed EXCEPT ![at] = crossed[at] \/ Meets(at)]
        /\ UNCHANGED <<rules, ruleFile, at, request, CalendarNotInitiated>>
    BY <1>9 DEF TypeParts, ReadRuleFile, LoopOK, files, caches
  <2>2. \A r \in Rules : /\ (Meets(r)' <=> Meets(r))
                         /\ (Busy(r)' <=> r = at)
                         /\ ~Busy(r)
                         /\ (Loaded(r)' <=> Loaded(r))
    BY <2>1 DEF Loaded, Busy, Meets
  <2>3. \A r \in Rules :
          crossed'[r] <=> crossed[r] \/ (r = at /\ Meets(at))
    BY <2>1 DEF TypeParts, HistoryOK
  <2>4. \A r \in Rules : /\ Loaded(r)' /\ ~Busy(r)' /\ ~Meets(r)' /\ ~crossed'[r]
                         => rules'[r] = ruleFile'[r]
    BY <2>1, <2>2, <2>3 DEF InStep
  <2>5. request'.pc = "store" /\ ~crossed'[request'.rule]
          => request'.config = ruleFile'[request'.rule]
    BY <2>1, <2>3 DEF TypeParts, InStep, RequestOK
  <2>6. ~crossed'[at] => rules[at] = ruleFile[at]
    <3>1. Loaded(at)
      BY <2>1 DEF Loaded, Present, Suspending
    <3> QED BY <2>1, <2>2, <2>3, <3>1 DEF InStep
  <2> QED BY <2>1, <2>2, <2>3, <2>4, <2>5, <2>6 DEF InStep
<1>10. CASE WriteRuleFile
  BY <1>10, RulesAssumption
     DEF InStep, WriteRuleFile, TypeParts, Loaded, Busy, Meets, Rules, Present,
         NoFile, NotLoaded, files, caches, sensors, outputs, looping, history,
         LoopOK, FilesOK, HistoryOK
<1>11. CASE DisableRule
  BY <1>11, RulesAssumption
     DEF InStep, DisableRule, TypeParts, Loaded, Busy, Meets, Rules, Present,
         NoFile, NotLoaded, files, caches, sensors, outputs, looping, history,
         LoopOK, CachesOK, HistoryOK, EndSuspension, GoOn
<1>12. CASE ReadTimerFile
  BY <1>12, RulesAssumption
     DEF InStep, ReadTimerFile, TypeParts, Loaded, Busy, Meets, Rules, Present,
         NoFile, NotLoaded, files, caches, sensors, outputs, looping, history,
         LoopOK
<1>13. CASE WriteTimerFile
  BY <1>13, RulesAssumption
     DEF InStep, WriteTimerFile, TypeParts, Loaded, Busy, Meets, Rules, Present,
         NoFile, NotLoaded, files, caches, sensors, outputs, looping, history
<1>14. CASE CacheTimer
  BY <1>14, RulesAssumption
     DEF InStep, CacheTimer, TypeParts, Loaded, Busy, Meets, Rules, Present,
         NoFile, NotLoaded, files, caches, sensors, outputs, looping, history,
         LoopOK, EndSuspension, GoOn
<1>15. ASSUME NEW d \in 1..MaxStep, Watch(d) PROVE InStep'
  BY <1>15, RulesAssumption
     DEF InStep, Watch, TypeParts, Loaded, Busy, Meets, Rules, Present, NoFile,
         NotLoaded, files, caches, sensors, outputs, looping, history
<1>16. CASE SaveRule
  <2>1. PICK f \in RuleForms :
          /\ ruleFile' = [ruleFile EXCEPT ![f.rule] = f.config]
          /\ request' = Refresh(f.rule)
          /\ suspended' = [suspended EXCEPT ![f.rule] = FALSE]
          /\ crossed' = [crossed EXCEPT ![f.rule] = Busy(f.rule)]
    BY <1>16 DEF SaveRule
  <2>2. f.rule \in Rules /\ request'.pc = "load" /\ request'.rule = f.rule
    BY <2>1, RulesAssumption DEF Refresh, Idle
  <2>3. request.pc = "idle" /\ UNCHANGED <<rules, lpc, at, local, CalendarNotInitiated>>
    BY <1>16 DEF SaveRule, caches, looping
  <2>4. \A r \in Rules : /\ (Meets(r)' <=> r = f.rule)
                         /\ ~Meets(r)
                         /\ (Busy(r)' <=> Busy(r))
                         /\ (Loaded(r)' <=> Loaded(r))
    BY <2>2, <2>3 DEF Loaded, Busy, Meets
  <2>5. \A r \in Rules :
          /\ r = f.rule => (crossed'[r] <=> Busy(f.rule))
          /\ r # f.rule => (crossed'[r] <=> crossed[r])
          /\ r # f.rule => ruleFile'[r] = ruleFile[r]
    BY <2>1, <2>2 DEF TypeParts, FilesOK, HistoryOK
  <2>6. \A r \in Rules : /\ Loaded(r)' /\ ~Busy(r)' /\ ~Meets(r)' /\ ~crossed'[r]
                         => rules'[r] = ruleFile'[r]
    BY <2>3, <2>4, <2>5 DEF InStep
  <2>7. lpc \in {"store", "write", "disable"} /\ ~crossed'[at]
          => ~crossed[at] /\ ruleFile'[at] = ruleFile[at]
    BY <2>5 DEF TypeParts, Busy, LoopOK
  <2> QED BY <2>2, <2>3, <2>4, <2>5, <2>6, <2>7 DEF InStep
<1>17. CASE LoadSaved
  BY <1>17, RulesAssumption
     DEF InStep, LoadSaved, TypeParts, Loaded, Busy, Meets, Rules, Present,
         NoFile, NotLoaded, files, caches, sensors, outputs, looping, history,
         RequestOK
<1>18. CASE StoreSaved
  BY <1>18, RulesAssumption
     DEF InStep, StoreSaved, TypeParts, Loaded, Busy, Meets, Rules, Present,
         NoFile, NotLoaded, files, caches, sensors, outputs, looping, history,
         RequestOK, CachesOK, Idle
<1>19. CASE SaveTimer
  BY <1>19, RulesAssumption
     DEF InStep, SaveTimer, TypeParts, Loaded, Busy, Meets, Rules, Present,
         NoFile, NotLoaded, files, caches, sensors, outputs, looping, history
<1>20. CASE SaveSensors
  BY <1>20, RulesAssumption
     DEF InStep, SaveSensors, TypeParts, Loaded, Busy, Meets, Rules, Present,
         NoFile, NotLoaded, files, caches, sensors, outputs, looping, history,
         Idle
<1>21. CASE LoadTopics
  BY <1>21, RulesAssumption
     DEF InStep, LoadTopics, TypeParts, Loaded, Busy, Meets, Rules, Present,
         NoFile, NotLoaded, files, caches, sensors, outputs, looping, history,
         Idle
<1>22. CASE SensorMessage
  BY <1>22, RulesAssumption
     DEF InStep, SensorMessage, TypeParts, Loaded, Busy, Meets, Rules, Present,
         NoFile, NotLoaded, files, caches, sensors, outputs, looping, history
<1>23. CASE Measure
  BY <1>23, RulesAssumption
     DEF InStep, Measure, TypeParts, Loaded, Busy, Meets, Rules, Present,
         NoFile, NotLoaded, files, caches, sensors, outputs, looping, history
<1>24. CASE SetTime
  BY <1>24, RulesAssumption
     DEF InStep, SetTime, TypeParts, Loaded, Busy, Meets, Rules, Present,
         NoFile, NotLoaded, files, caches, sensors, outputs, looping, history
<1>25. CASE Command
  BY <1>25, RulesAssumption
     DEF InStep, Command, TypeParts, Loaded, Busy, Meets, Rules, Present,
         NoFile, NotLoaded, files, caches, sensors, outputs, looping, history
<1>26. CASE Restart
  BY <1>26, RulesAssumption
     DEF InStep, Restart, TypeParts, Loaded, Busy, Meets, Rules, Present,
         NoFile, NotLoaded, files, caches, sensors, outputs, looping, history,
         Idle, FilesOK
<1>27. CASE UNCHANGED vars
  BY <1>27
     DEF InStep, vars, Loaded, Busy, Meets, Rules, Present, NoFile, NotLoaded,
         files, caches, sensors, outputs, looping, history
<1>28. CASE ClearSlots
  BY <1>28, RulesAssumption
     DEF InStep, ClearSlots, TypeParts, Loaded, Busy, Meets, Rules, Present,
         NoFile, NotLoaded, files, caches, sensors, outputs, looping, history,
         Idle
<1> QED
  BY <1>1, <1>2, <1>3, <1>4, <1>5, <1>6, <1>7, <1>8, <1>9, <1>10, <1>11, <1>12,
     <1>13, <1>14, <1>15, <1>16, <1>17, <1>18, <1>19, <1>20, <1>21, <1>22,
     <1>23, <1>24, <1>25, <1>26, <1>27, <1>28 DEF Next, Loop, Handler, Environment

(* A rule that was switched off is off in its file, and a save that is     *)
(* under way then has met the loop.                                        *)
OffInFile ==
  \A r \in Rules :
    suspended[r] => ~InForce(ruleFile[r]) /\ (Meets(r) => crossed[r])

LEMMA OffStep ==
  TypeParts /\ Present /\ OffInFile /\ [Next]_vars => OffInFile'
<1> SUFFICES ASSUME TypeParts, Present, OffInFile, [Next]_vars PROVE OffInFile'
  OBVIOUS
<1>1. CASE StartReload
  BY <1>1, RulesAssumption
     DEF OffInFile, StartReload, TypeParts, Meets, files, caches, sensors,
         outputs, looping, history
<1>2. CASE NoReload
  BY <1>2, RulesAssumption
     DEF OffInFile, NoReload, TypeParts, Meets, files, caches, sensors, outputs,
         looping, history
<1>3. CASE LoadRule
  BY <1>3, RulesAssumption
     DEF OffInFile, LoadRule, TypeParts, Meets, files, caches, sensors, outputs,
         looping, history, LoopOK, HistoryOK
<1>4. CASE StoreRule
  BY <1>4, RulesAssumption
     DEF OffInFile, StoreRule, TypeParts, Meets, files, caches, sensors,
         outputs, looping, history, LoopOK, HistoryOK
<1>5. CASE EndReload
  BY <1>5, RulesAssumption
     DEF OffInFile, EndReload, TypeParts, Meets, files, caches, sensors,
         outputs, looping, history
<1>6. CASE SkipRule
  BY <1>6, RulesAssumption
     DEF OffInFile, SkipRule, TypeParts, Meets, files, caches, sensors, outputs,
         looping, history
<1>7. CASE MissSource
  BY <1>7, RulesAssumption
     DEF OffInFile, MissSource, TypeParts, Meets, files, caches, sensors,
         outputs, looping, history
<1>8. ASSUME NEW now \in Nows, EvaluateRule(now) PROVE OffInFile'
  BY <1>8, Evaluated, RulesAssumption
     DEF OffInFile, TypeParts, Meets, files, caches, sensors,
         outputs, looping, history
<1>9. CASE ReadRuleFile
  BY <1>9, RulesAssumption
     DEF OffInFile, ReadRuleFile, TypeParts, Meets, files, caches, sensors,
         outputs, looping, history, LoopOK, HistoryOK
<1>10. CASE WriteRuleFile
  <2>1. /\ at \in Rules /\ local \in RuleConfigs \cup {None} /\ local # None
        /\ ruleFile' = [ruleFile EXCEPT ![at] = Disabled(local)]
        /\ crossed' = [crossed EXCEPT ![at] = crossed[at] \/ Meets(at)]
        /\ suspended' = [suspended EXCEPT ![at] = TRUE]
        /\ UNCHANGED request
    BY <1>10 DEF TypeParts, WriteRuleFile, Present, LoopOK, NoFile
  <2>2. ~InForce(Disabled(local))
    BY <2>1, DisabledPresent
  <2>3. \A r \in Rules : /\ (Meets(r)' <=> Meets(r))
                         /\ (crossed'[r] <=> crossed[r] \/ (r = at /\ Meets(at)))
                         /\ r # at => suspended'[r] = suspended[r]
                         /\ r # at => ruleFile'[r] = ruleFile[r]
                         /\ ruleFile'[at] = Disabled(local)
    BY <2>1 DEF TypeParts, Meets, FilesOK, HistoryOK
  <2> SUFFICES ASSUME NEW r \in Rules, suspended'[r]
               PROVE  ~InForce(ruleFile'[r]) /\ (Meets(r)' => crossed'[r])
    BY DEF OffInFile, InForce
  <2>4. CASE r = at
    <3>1. ruleFile'[r] = Disabled(local)
      BY <2>1, <2>3, <2>4
    <3>2. ~InForce(ruleFile'[r])
      BY <2>2, <3>1
    <3>3. Meets(r)' => Meets(at)
      BY <2>1, <2>4 DEF Meets
    <3>4. Meets(at) => crossed'[at]
      BY <2>1, <2>3
    <3> QED BY <2>4, <3>2, <3>3, <3>4
  <2>5. CASE r # at
    BY <2>1, <2>3, <2>5 DEF OffInFile, Meets, InForce
  <2> QED BY <2>4, <2>5
<1>11. CASE DisableRule
  BY <1>11, RulesAssumption
     DEF OffInFile, DisableRule, TypeParts, Meets, files, caches, sensors,
         outputs, looping, history, LoopOK, HistoryOK
<1>12. CASE ReadTimerFile
  BY <1>12, RulesAssumption
     DEF OffInFile, ReadTimerFile, TypeParts, Meets, files, caches, sensors,
         outputs, looping, history
<1>13. CASE WriteTimerFile
  BY <1>13, RulesAssumption
     DEF OffInFile, WriteTimerFile, TypeParts, Meets, files, caches, sensors,
         outputs, looping, history
<1>14. CASE CacheTimer
  BY <1>14, RulesAssumption
     DEF OffInFile, CacheTimer, TypeParts, Meets, files, caches, sensors,
         outputs, looping, history
<1>15. ASSUME NEW d \in 1..MaxStep, Watch(d) PROVE OffInFile'
  BY <1>15, RulesAssumption
     DEF OffInFile, Watch, TypeParts, Meets, files, caches, sensors, outputs,
         looping, history
<1>16. CASE SaveRule
  BY <1>16, RulesAssumption
     DEF OffInFile, SaveRule, TypeParts, Meets, files, caches, sensors, outputs,
         looping, history, FilesOK, LoopOK, HistoryOK, Refresh, Idle
<1>17. CASE LoadSaved
  BY <1>17, RulesAssumption
     DEF OffInFile, LoadSaved, TypeParts, Meets, files, caches, sensors,
         outputs, looping, history, RequestOK
<1>18. CASE StoreSaved
  BY <1>18, RulesAssumption
     DEF OffInFile, StoreSaved, TypeParts, Meets, files, caches, sensors,
         outputs, looping, history, RequestOK, Idle
<1>19. CASE SaveTimer
  BY <1>19, RulesAssumption
     DEF OffInFile, SaveTimer, TypeParts, Meets, files, caches, sensors,
         outputs, looping, history
<1>20. CASE SaveSensors
  BY <1>20, RulesAssumption
     DEF OffInFile, SaveSensors, TypeParts, Meets, files, caches, sensors,
         outputs, looping, history, Idle
<1>21. CASE LoadTopics
  BY <1>21, RulesAssumption
     DEF OffInFile, LoadTopics, TypeParts, Meets, files, caches, sensors,
         outputs, looping, history, Idle
<1>22. CASE SensorMessage
  BY <1>22, RulesAssumption
     DEF OffInFile, SensorMessage, TypeParts, Meets, files, caches, sensors,
         outputs, looping, history
<1>23. CASE Measure
  BY <1>23, RulesAssumption
     DEF OffInFile, Measure, TypeParts, Meets, files, caches, sensors, outputs,
         looping, history
<1>24. CASE SetTime
  BY <1>24, RulesAssumption
     DEF OffInFile, SetTime, TypeParts, Meets, files, caches, sensors, outputs,
         looping, history
<1>25. CASE Command
  BY <1>25, RulesAssumption
     DEF OffInFile, Command, TypeParts, Meets, files, caches, sensors, outputs,
         looping, history
<1>26. CASE Restart
  BY <1>26, RulesAssumption
     DEF OffInFile, Restart, TypeParts, Meets, files, caches, sensors, outputs,
         looping, history, Idle
<1>27. CASE UNCHANGED vars
  BY <1>27
     DEF OffInFile, vars, Meets, files, caches, sensors, outputs, looping,
         history
<1>28. CASE ClearSlots
  BY <1>28, RulesAssumption
     DEF OffInFile, ClearSlots, TypeParts, Meets, files, caches, sensors,
         outputs, looping, history, Idle
<1> QED
  BY <1>1, <1>2, <1>3, <1>4, <1>5, <1>6, <1>7, <1>8, <1>9, <1>10, <1>11, <1>12,
     <1>13, <1>14, <1>15, <1>16, <1>17, <1>18, <1>19, <1>20, <1>21, <1>22,
     <1>23, <1>24, <1>25, <1>26, <1>27, <1>28 DEF Next, Loop, Handler, Environment

-----------------------------------------------------------------------------
(* The invariants hold at the beginning.                                   *)
LEMMA ParamsInit == Init => Present /\ InStep /\ OffInFile
<1> SUFFICES ASSUME Init PROVE Present /\ InStep /\ OffInFile
  OBVIOUS
<1>1. /\ lpc = "calendar" /\ at = 1 /\ local = None /\ CalendarNotInitiated
      /\ request.pc = "idle"
      /\ \A r \in Rules : rules[r] = None /\ ~suspended[r]
  BY DEF Init, BootInit, Idle, NoFile, NotLoaded
<1>2. Present
  BY <1>1 DEF Present, Suspending
<1>3. \A r \in Rules : ~Loaded(r) /\ ~Busy(r)
  BY <1>1 DEF Loaded, Busy
<1>4. InStep
  BY <1>1, <1>3 DEF InStep
<1>5. OffInFile
  BY <1>1 DEF OffInFile
<1> QED BY <1>2, <1>4, <1>5

-----------------------------------------------------------------------------
(* The level of a relay whose last command was a rule's.                   *)
Level(c, result) == IF (c.action = "ON") = result THEN HIGH ELSE LOW

LEMMA WantedLevel ==
  ASSUME NEW c \in RuleConfigs, c.action # "TOGGLE", NEW result \in BOOLEAN
  PROVE  Wanted(c, result) = Level(c, result)
<1>1. c.action \in {"ON", "OFF"}
  BY DEF RuleConfigs
<1> QED BY <1>1 DEF Wanted, Level

(* The level of the relay a rule drove, until somebody else writes it: it  *)
(* is about the command the rule gave, whatever has been saved since.      *)
DrivenBy(r) == deed[r] # NoDeed /\ deed[r].fate = "driven"

Driven(r) ==
  DrivenBy(r) =>
    /\ deed[r].relay \in Relays
    /\ ruleState[r].fired /\ deed[r].action # "TOGGLE"
       => pin[deed[r].relay] = Level(deed[r], ruleState[r].lastResult)

AllDriven == \A r \in Rules : Driven(r)

LEMMA DrivenInit == Init => AllDriven
BY DEF Init, AllDriven, Driven, DrivenBy

LEMMA DrivenReset ==
  ASSUME TypeParts, AllDriven, UNCHANGED <<pin, deed>>, NEW q \in Rules,
         ruleState' = [ruleState EXCEPT ![q] = resetRuleConditionState(@)]
  PROVE  AllDriven'
<1> SUFFICES ASSUME NEW r \in Rules, DrivenBy(r) PROVE Driven(r)'
  BY DEF AllDriven, Driven, DrivenBy
<1>1. ruleState'[r].fired => ruleState'[r] = ruleState[r]
  BY DEF TypeParts, StateOK, resetRuleConditionState, RuleStates
<1> QED BY <1>1 DEF AllDriven, Driven, Level

(* What a rule notes only counts as fired when it is what it was.          *)
LEMMA NoteFired ==
  ASSUME NEW st \in RuleStates, NEW result \in BOOLEAN
  PROVE  /\ NoteResult(st, result).fired => NoteResult(st, result) = st
         /\ NoteResult(st, result).lastFired = st.lastFired
         /\ NoteResult(st, result).lastResult = result
BY DEF NoteResult, RuleStates

LEMMA OvertakeDriven ==
  ASSUME TypeParts, NEW y \in Relays, NEW r \in Rules,
         Overtake(y, deed)[r] # NoDeed, Overtake(y, deed)[r].fate = "driven"
  PROVE  DrivenBy(r) /\ deed[r].relay # y /\ Overtake(y, deed)[r] = deed[r]
<1>1. deed[r] \in Deeds \cup {NoDeed}
  BY DEF TypeParts, HistoryOK
<1>2. CASE deed[r] # NoDeed /\ deed[r].relay = y
  <2>1. Overtake(y, deed)[r] = [deed[r] EXCEPT !.fate = "overtaken"]
    BY <1>2 DEF Overtake
  <2>2. [deed[r] EXCEPT !.fate = "overtaken"].fate = "overtaken"
    BY <1>1, <1>2 DEF Deeds
  <2> QED BY <2>1, <2>2
<1>3. CASE ~(deed[r] # NoDeed /\ deed[r].relay = y)
  <2>1. Overtake(y, deed)[r] = deed[r]
    BY <1>3 DEF Overtake
  <2> QED BY <1>3, <2>1 DEF DrivenBy
<1> QED BY <1>2, <1>3

LEMMA DrivenEvaluated ==
  ASSUME TypeParts, AllDriven, NEW now \in Nows, EvaluateRule(now)
  PROVE  AllDriven'
<1> DEFINE c == rules[at]
           y == c.targetRelay
<1>0. PICK result \in BOOLEAN : Conclude(c, result)
  BY Evaluated
<1> DEFINE st == NoteResult(ruleState[at], result)
<1>1. /\ at \in Rules /\ c \in RuleConfigs
      /\ ruleState[at] \in RuleStates
  BY Evaluated DEF TypeParts, LoopOK, CachesOK, StateOK, InForce, NotLoaded
<1>2. /\ st \in RuleStates /\ st.lastResult = result
      /\ st.fired => st = ruleState[at]
  BY <1>1, NoteType, NoteFired
<1>3. CASE ~Due(st, c)
  <2>1. ruleState' = [ruleState EXCEPT ![at] = st] /\ UNCHANGED <<pin, deed>>
    BY <1>0, <1>3 DEF Conclude, outputs
  <2> HIDE DEF st, c
  <2>2. \A r \in Rules : ruleState'[r].fired => ruleState'[r] = ruleState[r]
    BY <1>1, <1>2, <2>1 DEF TypeParts, StateOK
  <2> QED BY <1>1, <2>1, <2>2 DEF AllDriven, Driven, DrivenBy, Level
<1>4. CASE Due(st, c)
  <2>1. /\ ruleState' = [ruleState EXCEPT ![at] = Fired(st, c)]
        /\ mdigitalWrite(y, Wanted(c, result))
        /\ deed' = IF lockupdate[y] THEN [deed EXCEPT ![at] = Deed("dropped", c)]
                   ELSE [Overtake(y, deed) EXCEPT ![at] = Deed("driven", c)]
    BY <1>0, <1>4 DEF Conclude
  <2>2. y \in Relays
    BY <1>4 DEF Due
  <2>3. Fired(st, c).lastResult = result
    BY <1>2 DEF Fired, RuleStates
  <2>4. c.action # "TOGGLE" => Wanted(c, result) = Level(c, result)
    BY <1>1, WantedLevel
  <2>d. /\ Deed("driven", c).relay = y /\ Deed("driven", c).action = c.action
        /\ Deed("dropped", c).fate = "dropped"
    BY DEF Deed
  <2> HIDE DEF st, c, y
  <2> SUFFICES ASSUME NEW r \in Rules, DrivenBy(r)' PROVE Driven(r)'
    BY DEF AllDriven, Driven
  <2>5. CASE r = at
    <3>1. ~lockupdate[y]
      BY <2>1, <2>5, <2>d DEF TypeParts, HistoryOK, DrivenBy
    <3>2. pin'[y] = Wanted(c, result)
      BY <2>1, <2>2, <3>1 DEF mdigitalWrite, TypeParts, OutputsOK
    <3>3. ruleState'[r].lastResult = result
      BY <1>1, <2>1, <2>3, <2>5 DEF TypeParts, StateOK
    <3>4. deed'[r] = Deed("driven", c)
      <4>1. Overtake(y, deed) \in [Rules -> Deeds \cup {NoDeed}]
        BY OvertakeType DEF TypeParts, HistoryOK
      <4> QED BY <2>1, <2>5, <3>1, <4>1
    <3>5. deed'[r].relay = y /\ deed'[r].action = c.action
      BY <2>d, <3>4
    <3>6. Level(deed'[r], result) = Level(c, result)
      BY <3>5 DEF Level
    <3> QED BY <2>2, <2>4, <3>2, <3>3, <3>5, <3>6 DEF Driven
  <2>6. CASE r # at
    <3>1. ruleState'[r] = ruleState[r]
      BY <1>1, <2>1, <2>6 DEF TypeParts, StateOK
    <3>2. CASE lockupdate[y]
      <4>1. pin' = pin /\ deed'[r] = deed[r]
        BY <2>1, <2>6, <3>2 DEF mdigitalWrite, TypeParts, HistoryOK
      <4> QED BY <3>1, <4>1 DEF AllDriven, Driven, DrivenBy
    <3>3. CASE ~lockupdate[y]
      <4>1. deed'[r] = Overtake(y, deed)[r]
        BY <2>1, <2>6, <3>3 DEF Overtake
      <4>2. DrivenBy(r) /\ deed[r].relay # y /\ deed'[r] = deed[r]
        BY <2>2, <4>1, OvertakeDriven DEF DrivenBy
      <4>3. deed[r].relay \in Relays
        BY <4>2 DEF AllDriven, Driven
      <4>4. pin'[deed[r].relay] = pin[deed[r].relay]
        BY <2>1, <2>2, <3>3, <4>2, <4>3 DEF mdigitalWrite, TypeParts, OutputsOK
      <4> QED BY <3>1, <4>2, <4>4 DEF AllDriven, Driven
    <3> QED BY <3>2, <3>3
  <2> QED BY <2>5, <2>6
<1> QED BY <1>3, <1>4

LEMMA DrivenStep == TypeParts /\ AllDriven /\ [Next]_vars => AllDriven'
<1> SUFFICES ASSUME TypeParts, AllDriven, [Next]_vars PROVE AllDriven'
  OBVIOUS
<1>0. at \in Rules
  BY DEF TypeParts, LoopOK
<1>1. ASSUME UNCHANGED <<ruleState, pin, deed>> PROVE AllDriven'
  BY <1>1 DEF AllDriven, Driven, DrivenBy
<1>2. CASE StoreRule \/ StoreSaved
  BY <1>1, <1>2 DEF StoreRule, StoreSaved, outputs, history
<1>4. CASE SkipRule \/ MissSource
  BY <1>0, <1>1, <1>4, DrivenReset DEF SkipRule, MissSource, outputs, history
<1>5. CASE DisableRule \/ CacheTimer
  BY <1>0, <1>1, <1>5, DrivenReset
     DEF DisableRule, CacheTimer, EndSuspension, outputs, history
<1>6. ASSUME NEW now \in Nows, EvaluateRule(now) PROVE AllDriven'
  BY <1>6, DrivenEvaluated
<1>7. ASSUME NEW d \in 1..MaxStep, Watch(d) PROVE AllDriven'
  <2>1. /\ ruleState' = [r \in Rules |-> Later(ruleState[r], d)]
        /\ UNCHANGED <<pin, deed>>
    BY <1>7 DEF Watch, Later
  <2>2. \A r \in Rules : /\ ruleState'[r].fired = ruleState[r].fired
                         /\ ruleState'[r].lastResult = ruleState[r].lastResult
    BY <2>1 DEF TypeParts, StateOK, Later, RuleStates
  <2> QED BY <2>1, <2>2 DEF AllDriven, Driven, DrivenBy, Level
<1>8. CASE Command
  <2>1. PICK y \in Relays, v \in Levels :
          ~lockupdate[y] /\ mdigitalWrite(y, v) /\ deed' = Overtake(y, deed)
    BY <1>8 DEF Command
  <2>2. UNCHANGED ruleState
    BY <1>8 DEF Command
  <2> SUFFICES ASSUME NEW r \in Rules, DrivenBy(r)' PROVE Driven(r)'
    BY DEF AllDriven, Driven
  <2>3. DrivenBy(r) /\ deed[r].relay # y /\ deed'[r] = deed[r]
    BY <2>1, OvertakeDriven DEF DrivenBy
  <2>4. deed[r].relay \in Relays
    BY <2>3 DEF AllDriven, Driven
  <2>5. pin'[deed[r].relay] = pin[deed[r].relay]
    BY <2>1, <2>3, <2>4 DEF mdigitalWrite, TypeParts, OutputsOK
  <2> QED BY <2>2, <2>3, <2>5 DEF AllDriven, Driven
<1>9. CASE Restart
  BY <1>9 DEF Restart, AllDriven, Driven, DrivenBy
<1>10. CASE StartReload \/ NoReload \/ LoadRule \/ EndReload \/ ReadRuleFile
  BY <1>1, <1>10 DEF StartReload, NoReload, LoadRule, EndReload, ReadRuleFile,
                     outputs, history
<1>11. CASE WriteRuleFile \/ ReadTimerFile \/ WriteTimerFile \/ LoadSaved
            \/ ClearSlots \/ LoadTopics
  BY <1>1, <1>11 DEF WriteRuleFile, ReadTimerFile, WriteTimerFile, LoadSaved,
                     ClearSlots, LoadTopics, outputs, history
<1>12. CASE SaveRule \/ SaveTimer \/ SaveSensors \/ SensorMessage \/ Measure \/ SetTime
  BY <1>1, <1>12 DEF SaveRule, SaveTimer, SaveSensors, SensorMessage, Measure,
                     SetTime, outputs, history
<1>13. CASE UNCHANGED vars
  BY <1>1, <1>13 DEF vars, outputs, history
<1> QED
  BY <1>2, <1>4, <1>5, <1>6, <1>7, <1>8, <1>9, <1>10, <1>11, <1>12, <1>13
     DEF Next, Loop, Handler, Environment

-----------------------------------------------------------------------------
(* The age of a rule's last command is what the rule keeps of it: neither  *)
(* a reset nor the loading of the rule touches it.                         *)
QuietKept == \A r \in Rules : quiet[r] = ruleState[r].lastFired

LEMMA QuietInit == Init => QuietKept
BY DEF Init, BootInit, NoResult, QuietKept

(* And a rule fires only when that age allows it.                          *)
LEMMA QuietStep ==
  ASSUME TypeParts, QuietKept, [Next]_vars
  PROVE  /\ QuietKept'
         /\ \A r \in Rules : Fires(r) /\ quiet[r] # Never
                             => quiet[r] >= rules[r].cooldown
<1> DEFINE Kept == \A r \in Rules : Fires(r) /\ quiet[r] # Never
                                    => quiet[r] >= rules[r].cooldown
<1>0. at \in Rules /\ ruleState \in [Rules -> RuleStates]
  BY DEF TypeParts, LoopOK, StateOK
<1>1. ASSUME UNCHANGED quiet,
             \/ UNCHANGED ruleState
             \/ ruleState' = [ruleState EXCEPT ![at] = resetRuleConditionState(@)]
      PROVE  QuietKept' /\ Kept
  <2>1. \A st \in RuleStates : resetRuleConditionState(st).lastFired = st.lastFired
    BY DEF resetRuleConditionState, RuleStates
  <2>2. \A r \in Rules :
          ruleState'[r] \in {ruleState[r], resetRuleConditionState(ruleState[r])}
    BY <1>0, <1>1
  <2>3. \A r \in Rules : ruleState'[r].lastFired = ruleState[r].lastFired
    BY <1>0, <2>1, <2>2
  <2> QED BY <1>1, <2>3 DEF QuietKept, Fires
<1>2. ASSUME NEW now \in Nows, EvaluateRule(now) PROVE QuietKept' /\ Kept
  <2> DEFINE c == rules[at]
  <2>0. PICK result \in BOOLEAN : Conclude(c, result)
    BY <1>2, Evaluated
  <2> DEFINE st == NoteResult(ruleState[at], result)
  <2>1. st \in RuleStates /\ st.lastFired = ruleState[at].lastFired
    BY <1>0, NoteType, NoteFired
  <2>2. CASE ~Due(st, c)
    <3>1. ruleState' = [ruleState EXCEPT ![at] = st] /\ UNCHANGED quiet
      BY <2>0, <2>2 DEF Conclude
    <3> HIDE DEF st
    <3>2. \A r \in Rules : ruleState'[r].lastFired = ruleState[r].lastFired
      BY <1>0, <2>1, <3>1
    <3> QED BY <3>1, <3>2 DEF QuietKept, Fires
  <2>3. CASE Due(st, c)
    <3>1. /\ ruleState' = [ruleState EXCEPT ![at] = Fired(st, c)]
          /\ quiet' = [quiet EXCEPT ![at] = 0]
      BY <2>0, <2>3 DEF Conclude
    <3>2. Fired(st, c).lastFired = 0
      BY <2>1 DEF Fired, RuleStates
    <3>3. st.lastFired = Never \/ st.lastFired >= c.cooldown
      BY <2>3 DEF Due
    <3> HIDE DEF st
    <3>4. QuietKept'
      BY <1>0, <3>1, <3>2 DEF QuietKept, TypeParts, HistoryOK
    <3>5. Kept
      BY <1>0, <2>1, <3>1, <3>3 DEF QuietKept, Fires, TypeParts, HistoryOK
    <3> QED BY <3>4, <3>5
  <2> QED BY <2>2, <2>3
<1>3. ASSUME NEW d \in 1..MaxStep, Watch(d) PROVE QuietKept' /\ Kept
  <2>1. /\ ruleState' = [r \in Rules |-> Later(ruleState[r], d)]
        /\ quiet' = [r \in Rules |-> Older(quiet[r], d, MaxCooldown)]
    BY <1>3 DEF Watch, Later
  <2>2. QuietKept'
    BY <1>0, <2>1 DEF QuietKept, Later, RuleStates
  <2>3. ASSUME NEW r \in Rules, quiet[r] # 0, quiet[r] # Never PROVE quiet'[r] # 0
    <3>1. quiet[r] \in 0..MaxCooldown /\ d \in Nat \ {0} /\ MaxCooldown \in Nat
      BY <2>3, RulesAssumption DEF TypeParts, HistoryOK, CoolAges
    <3>2. Older(quiet[r], d, MaxCooldown) # 0
      BY <2>3, <3>1, OlderType
    <3> QED BY <2>1, <3>2
  <2> QED BY <2>2, <2>3 DEF Fires
<1>4. CASE Restart
  <2>1. QuietKept'
    BY <1>4 DEF Restart, QuietKept, NoResult
  <2>2. \A r \in Rules : quiet'[r] # 0
    BY <1>4, RulesAssumption DEF Restart, Never
  <2> QED BY <2>1, <2>2 DEF Fires
<1>5. CASE SkipRule \/ MissSource \/ DisableRule \/ CacheTimer
  BY <1>1, <1>5
     DEF SkipRule, MissSource, DisableRule, CacheTimer, EndSuspension, history
<1>6. CASE StartReload \/ NoReload \/ LoadRule \/ StoreRule \/ EndReload \/ ReadRuleFile
  BY <1>1, <1>6 DEF StartReload, NoReload, LoadRule, StoreRule, EndReload,
                    ReadRuleFile, history
<1>7. CASE WriteRuleFile \/ ReadTimerFile \/ WriteTimerFile \/ LoadSaved \/ StoreSaved
           \/ ClearSlots \/ LoadTopics
  BY <1>1, <1>7 DEF WriteRuleFile, ReadTimerFile, WriteTimerFile, LoadSaved,
                    StoreSaved, ClearSlots, LoadTopics, history
<1>8. CASE SaveRule \/ SaveTimer \/ SaveSensors \/ SensorMessage \/ Measure \/ SetTime
           \/ Command
  BY <1>1, <1>8 DEF SaveRule, SaveTimer, SaveSensors, SensorMessage, Measure,
                    SetTime, Command, history
<1>9. CASE UNCHANGED vars
  BY <1>1, <1>9 DEF vars, history
<1> QED
  BY <1>2, <1>3, <1>4, <1>5, <1>6, <1>7, <1>8, <1>9
     DEF Next, Loop, Handler, Environment

-----------------------------------------------------------------------------
(* The invariant, and what follows from it.                                *)
Inv == TypeParts /\ Present /\ InStep /\ OffInFile /\ AllDriven /\ QuietKept

LEMMA InvHolds == Spec => []Inv
<1>1. Init => Inv
  BY TypeInit, TypeSplit, ParamsInit, DrivenInit, QuietInit DEF Inv
<1>2. Inv /\ [Next]_vars => Inv'
  BY TypeStep, PresentStep, InStepStep, OffStep, DrivenStep, QuietStep DEF Inv
<1> QED BY <1>1, <1>2, PTL DEF Spec

(* Every variable keeps its type, with any number of rules, relays, sensors *)
(* and saved pages.                                                        *)
THEOREM RulesTypeCorrect == Spec => []TypeOK
<1>1. Inv => TypeOK
  BY TypeSplit DEF Inv, TypeInv
<1> QED BY <1>1, InvHolds, PTL

(* refreshAutomationRuleCache() and disableAutomationRuleInFile(): but for *)
(* a save that meets the loop, the cache holds what the rule's file holds. *)
THEOREM CacheInStep == Spec => []CacheFollowsFile
<1>1. Inv => CacheFollowsFile
  BY DEF Inv, InStep, CacheFollowsFile, Loaded, NotLoaded
<1> QED BY <1>1, InvHolds, PTL

(* A rule that evaluateAutomationRules() switched off stays off until it   *)
(* is saved, in its file always, in memory unless a save met the loop.     *)
THEOREM SuspensionHolds == Spec => []SuspendedStaysOff
<1>1. Inv => SuspendedStaysOff
  <2> SUFFICES ASSUME Inv, NEW r \in Rules, suspended[r]
               PROVE  /\ ~InForce(ruleFile[r])
                      /\ InForce(rules[r]) => Busy(r) \/ crossed[r]
    BY DEF SuspendedStaysOff
  <2>1. ~InForce(ruleFile[r]) /\ (Meets(r) => crossed[r])
    BY DEF Inv, OffInFile
  <2>2. ASSUME InForce(rules[r]), ~Busy(r), ~crossed[r] PROVE FALSE
    <3>1. Loaded(r) /\ ~Meets(r)
      BY <2>1, <2>2 DEF Loaded, InForce, NotLoaded
    <3>2. rules[r] = ruleFile[r]
      BY <2>2, <3>1 DEF Inv, InStep
    <3> QED BY <2>1, <2>2, <3>2
  <2> QED BY <2>1, <2>2
<1> QED BY <1>1, InvHolds, PTL

(* A rule that counts as fired has its relay where its result asks for,    *)
(* until another writer drives the relay, if mdigitalWrite() carried its   *)
(* command out and its configuration still asks what the command asked.    *)
THEOREM FiredLevel == Spec => []FiredAgrees
<1>1. Inv => FiredAgrees
  <2> SUFFICES ASSUME Inv, NEW r \in Rules, ruleState[r].fired,
                      rules[r] # NotLoaded, DrivenBy(r), SameOrder(r)
               PROVE  pin[rules[r].targetRelay]
                        = Wanted(rules[r], ruleState[r].lastResult)
    BY DEF FiredAgrees, DrivenBy
  <2>1. pin[deed[r].relay] = Level(deed[r], ruleState[r].lastResult)
    BY DEF Inv, AllDriven, Driven, SameOrder
  <2>2. ruleState[r].lastResult \in BOOLEAN /\ rules[r] \in RuleConfigs
    BY DEF Inv, TypeParts, StateOK, RuleStates, CachesOK
  <2>3. Level(deed[r], ruleState[r].lastResult)
          = Level(rules[r], ruleState[r].lastResult)
    BY DEF Level, SameOrder
  <2>4. Wanted(rules[r], ruleState[r].lastResult)
          = Level(rules[r], ruleState[r].lastResult)
    BY <2>2, WantedLevel DEF SameOrder
  <2> QED BY <2>1, <2>3, <2>4 DEF SameOrder
<1> QED BY <1>1, InvHolds, PTL

(* Between two commands of a rule its cooldown passes, also when it was    *)
(* disabled, reset or loaded again in between.                             *)
THEOREM CooldownHolds == Spec => CooldownKept
<1>1. Inv /\ [Next]_vars
        => [\A r \in Rules : Fires(r) /\ quiet[r] # Never
                             => quiet[r] >= rules[r].cooldown]_vars
  BY QuietStep DEF Inv
<1> QED BY <1>1, InvHolds, PTL DEF Spec, CooldownKept

-----------------------------------------------------------------------------
LEMMA DayWrap ==
  ASSUME NEW a, NEW b, a \in 0..1439, b \in 0..1439
  PROVE  (a - b) % 1440 = IF a >= b THEN a - b ELSE a - b + 1440
OBVIOUS

(* The arithmetic of a timer's window, isNodeTimerActiveNow(): the window  *)
(* is the minutes one passes going on from its first one, over midnight if *)
(* need be, both ends included.                                              *)
THEOREM WindowHours ==
  ASSUME NEW c \in TimerConfigs, NEW now \in Moments
  PROVE  InHours(c, now) <=> InWindow(c, now)
<1> DEFINE from == c.from
           to == c.to
           mark == c.mark
           m == now.minute
<1>1. from \in 0..1439 /\ to \in 0..1439 /\ mark \in Nat
  BY DEF TimerConfigs, Minutes, DayMinutes
<1>2. m \in 0..1439
  BY DEF Moments, Minutes, DayMinutes
<1> DEFINE elapsed == (m - from) % 1440
           length == (to - from) % 1440
<1>3. /\ InHours(c, now) <=>
           LET end == IF mark > 0 THEN from + mark ELSE to
           IN  IF end >= 1440 THEN m >= from \/ m <= end - 1440
               ELSE IF from <= end THEN m >= from /\ m <= end
                                   ELSE m >= from \/ m <= end
      /\ InWindow(c, now) <=> elapsed <= IF mark > 0 THEN mark ELSE length
  BY DEF InHours, InWindow, ToMinutes, Elapsed, Length, DayMinutes
<1> HIDE DEF from, to, mark, m
<1>4. elapsed = IF m >= from THEN m - from ELSE m - from + 1440
  BY <1>1, <1>2
<1>5. length = IF to >= from THEN to - from ELSE to - from + 1440
  BY <1>1
<1>6. /\ from \in Int /\ to \in Int /\ mark \in Int /\ m \in Int
      /\ 0 <= from /\ from < 1440 /\ 0 <= to /\ to < 1440 /\ 0 <= mark
      /\ 0 <= m /\ m < 1440
  BY <1>1, <1>2
<1> HIDE DEF elapsed, length
<1>7. CASE mark > 0 /\ from + mark >= 1440
  BY <1>3, <1>4, <1>6, <1>7
<1>8. CASE mark > 0 /\ from + mark < 1440
  BY <1>3, <1>4, <1>6, <1>8
<1>9. CASE mark = 0
  BY <1>3, <1>4, <1>5, <1>6, <1>9
<1> QED BY <1>6, <1>7, <1>8, <1>9

=============================================================================
