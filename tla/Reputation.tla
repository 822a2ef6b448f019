----------------------------- MODULE Reputation -----------------------------
(***************************************************************************)
(* How NimShield comes to a block: the loop that takes the events from the  *)
(* channel, the reputation and the score of one network key, the windows of *)
(* the rules, and the policy of the administrator.  Logins, requests and    *)
(* administrators change the same row without a lock.  The keys do not meet *)
(* but in the channel; what a block does is Shield's.                       *)
(***************************************************************************)
EXTENDS Naturals, Sequences, FiniteSets
CONSTANTS
  Events,             \* what the key is seen to do: [rule, severity, valid, user]
  WindowLimit,        \* the events of a rule that make a block (10, 10, 3, 3 and 5)
  CorrelationMin,     \* scoreCorrelationMin (3)
  StuffingLimit,      \* the users tried that make one (3)
  HabitualAfter,      \* repHabitualThreshold (10)
  Policies,           \* what administrators ask for
  Recoveries,         \* the points a score may have recovered by the time it is read
  ChannelSize,        \* the places of shieldEvents (2000)
  MaxEvents, MaxSuccesses, MaxTurns

LimitedRules == {"token_invalid", "404", "TRAV-001", "INJ-001", "CSP-001"}
MinuteRules == {"token_invalid", "404", "TRAV-001"}
InstantRules == {"honeypot", "SCAN-003", "INJ-002"}
SpareRules == {"login_fail", "token_invalid", "404", "honeypot"}
Rules == LimitedRules \cup InstantRules \cup {"login_fail"}
Severities == {"critical", "high", "medium", "low"}
PolicyFields == {"unknown", "known", "habitual", "distrust"}

ASSUME ReputationAssumption ==
  /\ Events \subseteq [rule : Rules, severity : Severities, valid : BOOLEAN, user : Nat]
  /\ WindowLimit \in [LimitedRules -> Nat \ {0}] /\ Policies \subseteq [PolicyFields -> Nat] /\ Policies # {}
  /\ CorrelationMin \in Nat /\ StuffingLimit \in Nat /\ HabitualAfter \in Nat /\ ChannelSize \in Nat /\ Recoveries \subseteq Nat
  /\ MaxEvents \in Nat /\ MaxSuccesses \in Nat /\ MaxTurns \in Nat

VARIABLES
  success, streak, cold, score, \* the row of shield_reputation; one that is not there reads like a new one
  channel, judge,     \* shieldEvents, and shieldEventLoop, which empties it
  window, tried, attack, \* the events of each rule, the users and the categories that are still recent
  policy,             \* shieldCfgCache and the row of shield_config
  armed, trusted,     \* shieldBehavEnforce, and whether the key is in the whitelist
  barred,             \* a block of the key is in force
  judging,            \* whether shieldEventLoop was started
  seen, turns,
  failed, late,       \* history: failures since the last success, and whether some were still to be recorded then
  dues, undone,       \* history: penalties since the row was last forgotten, and whether one was being written then
  answered, cut       \* history: the last fall of the score met an answer, or a restart came before

rowOfKey == <<success, streak, cold, score>>
recent == <<window, tried, attack>>
stance == <<policy, armed, trusted>>
counted == <<seen, turns>>
past == <<failed, late, dues, undone, answered, cut>>
reputationVars == <<rowOfKey, barred, channel, judge, recent, stance, judging, counted, past>>

Penalty == [critical |-> 50, high |-> 25, medium |-> 12, low |-> 6]
ScoreThreshold == 30
Category == [r \in Rules |-> CASE r \in {"login_fail", "token_invalid"} -> "auth" [] r \in {"404", "SCAN-003"} -> "scan"
               [] r = "TRAV-001" -> "traversal" [] r = "honeypot" -> "honeypot" [] OTHER -> "injection"]
\* scorePenalty, with what correlation adds to it.
Points(e) == Penalty[e.severity] + (IF Cardinality(attack) >= CorrelationMin THEN 30 ELSE 0)

\* sanitizeShieldConfig.
DefaultPolicy == [unknown |-> 5, known |-> 7, habitual |-> 10, distrust |-> 3]
Lowest == [f \in PolicyFields |-> IF f = "distrust" THEN 2 ELSE 1]
Highest == [f \in PolicyFields |-> IF f = "distrust" THEN 20 ELSE 100]
Sanitized(p) == [f \in PolicyFields |-> IF p[f] = 0 THEN DefaultPolicy[f] ELSE IF p[f] < Lowest[f] THEN Lowest[f]
                                        ELSE IF p[f] > Highest[f] THEN Highest[f] ELSE p[f]]
SanePolicies == {Sanitized(p) : p \in Policies} \cup {DefaultPolicy}

NoEvent == [rule |-> "honeypot", severity |-> "low", valid |-> FALSE, user |-> 0]
AtRest == [pc |-> "wait", event |-> NoEvent, old |-> 0, points |-> 0, streak |-> 0, success |-> 0]
LoopAt(pc) == judge.pc = pc
LoopGoes(pc) == judge' = [judge EXCEPT !.pc = pc]
\* The administrator asks for something, or the daemon restarts.
AdminTurn == turns < MaxTurns /\ turns' = turns + 1
\* A failed login is still on its way to the row.
Failures == {i \in DOMAIN channel : channel[i].rule = "login_fail"}
RecordingFail == judge.event.rule = "login_fail" /\ judge.pc \in {"read", "score", "cross", "rules", "record", "decide"}

ReputationInit ==
  /\ success = 0 /\ streak = 0 /\ cold = TRUE /\ score = 100 /\ barred = FALSE
  /\ channel = <<>> /\ judge = AtRest /\ window = [r \in Rules |-> 0] /\ tried = {} /\ attack = {}
  /\ policy \in SanePolicies
  /\ armed \in BOOLEAN /\ trusted = FALSE /\ judging = TRUE
  /\ seen = 0 /\ turns = 0
  /\ failed = 0 /\ late = FALSE /\ dues = 0 /\ undone = FALSE /\ answered = TRUE /\ cut = FALSE

-----------------------------------------------------------------------------
(* What others do to the row and to the channel.                           *)

\* shieldEmit, by the request that failed or was found out, which a block in force may have let in just
\* before: a full channel drops the event.  Of a trusted key the middleware reads no payload, and what it
\* blocks at once it blocks of others.
Emit(e) ==
  /\ seen < MaxEvents /\ seen' = seen + 1 /\ (trusted => e.rule \in SpareRules)
  /\ channel' = IF Len(channel) < ChannelSize THEN Append(channel, e) ELSE channel
  /\ failed' = failed + (IF e.rule = "login_fail" THEN 1 ELSE 0)
  /\ barred' = (barred \/ (e.rule \in InstantRules /\ ~trusted /\ ~(e.rule = "INJ-002" /\ e.valid)))
  /\ UNCHANGED <<rowOfKey, judge, recent, stance, judging, turns,
                 late, dues, undone, answered, cut>>
\* Mutant: a login that succeeds leaves the streak to the next failure.
AuthSuccessKeepsStreak ==
  /\ success < MaxSuccesses /\ success' = success + 1 /\ failed' = 0 /\ late' = (Failures # {} \/ RecordingFail)
  /\ UNCHANGED <<streak, cold, score, barred, channel, judge, recent, stance, judging, counted,
                 dues, undone, answered, cut>>
\* ShieldAuthSuccess, by the login itself.
AuthSuccess ==
  /\ success < MaxSuccesses /\ success' = success + 1 /\ streak' = 0
  /\ failed' = 0 /\ late' = (Failures # {} \/ RecordingFail)
  /\ UNCHANGED <<cold, score, barred, channel, judge, recent, stance, judging, counted,
                 dues, undone, answered, cut>>
\* shieldRepForget.
Forget ==
  /\ AdminTurn /\ success' = 0 /\ streak' = 0 /\ cold' = TRUE /\ score' = 100
  /\ dues' = 0 /\ undone' = LoopAt("score")
  /\ UNCHANGED <<barred, channel, judge, recent, stance, judging, seen, failed, late, answered, cut>>

-----------------------------------------------------------------------------
(* shieldEventLoop: the event is stored, then shieldScorePenalize.         *)

Take ==
  /\ judging /\ LoopAt("wait") /\ channel # <<>> /\ channel' = Tail(channel)
  /\ judge' = [AtRest EXCEPT !.pc = "read", !.event = Head(channel)]
  /\ attack' = attack \cup {Category[Head(channel).rule]}
  /\ UNCHANGED <<rowOfKey, barred, window, tried, stance, judging, counted, past>>
\* shieldScoreRead, with what the score has recovered since it was written.
ReadScore ==
  /\ LoopAt("read")
  /\ \E h \in Recoveries : LET read == IF score + h > 100 THEN 100 ELSE score + h IN
       judge' = [judge EXCEPT !.pc = "score", !.old = read, !.points = Points(judge.event)]
  /\ UNCHANGED <<rowOfKey, barred, channel, recent, stance, judging, counted, past>>
Lowered == IF judge.points > judge.old THEN 0 ELSE judge.old - judge.points
Crosses == judge.old >= ScoreThreshold /\ Lowered < ScoreThreshold
WriteScore ==
  /\ LoopAt("score") /\ score' = Lowered /\ dues' = dues + judge.points
  /\ answered' = ((judge.old < ScoreThreshold \/ Lowered >= ScoreThreshold) /\ answered)
  /\ cut' = (cut /\ ~(judge.old >= ScoreThreshold))
  /\ LoopGoes(IF Crosses THEN "cross" ELSE "rules")
  /\ UNCHANGED <<success, streak, cold, barred, channel, recent, stance, judging, counted,
                 failed, late, undone>>
\* The key falls below the threshold: it is blocked, unless the event is of a session, the key is
\* trusted or nobody armed the block.
AnswerFall ==
  /\ LoopAt("cross") /\ LoopGoes("rules") /\ answered' = TRUE
  /\ barred' = (barred \/ (armed /\ ~trusted /\ ~judge.event.valid))
  /\ UNCHANGED <<rowOfKey, channel, recent, stance, judging, counted,
                 failed, late, dues, undone, cut>>

-----------------------------------------------------------------------------
(* processRules.                                                           *)

\* countAndAdd of the rule, if it has a window; payloads of a session are not counted.  SCAN-002 counts under
\* a key nobody adds to, and never fires.
CountEvent ==
  LET r == judge.event.rule
      counts == ~trusted /\ r \in LimitedRules /\ ~(judge.event.valid /\ Category[r] \in {"traversal", "injection"})
  IN
  /\ LoopAt("rules") /\ (trusted \/ r # "login_fail") /\ judge' = AtRest
  /\ window' = IF counts THEN [window EXCEPT ![r] = @ + 1] ELSE window
  /\ barred' = (barred \/ (counts /\ window[r] + 1 >= WindowLimit[r]))
  /\ UNCHANGED <<rowOfKey, channel, tried, attack, stance, judging, counted, past>>
\* shieldRepRecordFail reads the row, then writes it.
ReadStreak ==
  /\ LoopAt("rules") /\ ~trusted /\ judge.event.rule = "login_fail"
  /\ judge' = [judge EXCEPT !.pc = "record", !.success = success, !.streak = IF cold THEN 1 ELSE streak + 1]
  /\ UNCHANGED <<rowOfKey, barred, channel, recent, stance, judging, counted, past>>
RecordFail ==
  /\ LoopAt("record") /\ streak' = judge.streak /\ cold' = FALSE /\ LoopGoes("decide")
  /\ UNCHANGED <<success, score, barred, channel, recent, stance, judging, counted, past>>
\* shieldAuthDecision.
Distrusts == judge.success > 0 /\ judge.streak >= policy["distrust"]
Threshold == policy[IF judge.success >= HabitualAfter THEN "habitual" ELSE IF judge.success >= 1 THEN "known" ELSE "unknown"]
Decide ==
  LET blocks == Distrusts \/ window["login_fail"] + 1 >= Threshold IN
  /\ LoopAt("decide") /\ judge' = AtRest /\ window' = [window EXCEPT !["login_fail"] = @ + 1]
  /\ tried' = IF blocks THEN tried ELSE tried \cup {judge.event.user}
  /\ barred' = (barred \/ blocks \/ Cardinality(tried') >= StuffingLimit)
  /\ UNCHANGED <<rowOfKey, channel, attack, stance, judging, counted, past>>

-----------------------------------------------------------------------------
(* The administrator, time and restarts.                                   *)

\* setShieldConfig: the row and the cache; two changes that cross may leave them apart, which is left out.
SetPolicy(p) ==
  /\ AdminTurn /\ policy' = Sanitized(p)
  /\ UNCHANGED <<rowOfKey, barred, channel, judge, recent, armed, trusted, judging, seen, past>>
\* POST /api/shield/behavior.
Arm ==
  /\ AdminTurn /\ armed' = ~armed
  /\ UNCHANGED <<rowOfKey, barred, channel, judge, recent, policy, trusted, judging, seen, past>>
\* The key enters the whitelist, which lifts its block, or leaves it.
Trust ==
  /\ AdminTurn /\ trusted' = ~trusted /\ barred' = (barred /\ trusted)
  /\ UNCHANGED <<rowOfKey, channel, judge, recent, policy, armed, judging, seen, past>>
\* shieldEnsureEngine, when the shield was off at the start: the channel has been filling since.
StartEngine ==
  /\ ~judging /\ judging' = TRUE
  /\ UNCHANGED <<rowOfKey, barred, channel, judge, recent, stance, counted, past>>

\* Minutes go by: what is recent grows old, then a streak does.
Pass(m) ==
  /\ window' = [r \in Rules |-> IF r \in MinuteRules \/ m >= 5 THEN 0 ELSE window[r]] /\ tried' = {}
  /\ attack' = (IF m >= 10 THEN {} ELSE attack) /\ cold' = (cold \/ (m >= 15 /\ LoopAt("wait")))
  /\ UNCHANGED <<success, streak, score, barred, channel, judge, stance, judging, counted, past>>
\* The block ends, or the administrator lifts it.
Unbar ==
  /\ barred /\ barred' = FALSE
  /\ UNCHANGED <<rowOfKey, channel, judge, recent, stance, judging, counted, past>>
\* The channel and the windows are memory.  A score that fell and was not answered stays so.
RepRestart ==
  /\ AdminTurn /\ judging' \in BOOLEAN
  /\ channel' = <<>> /\ judge' = AtRest /\ window' = [r \in Rules |-> 0] /\ tried' = {}
  /\ cut' = (cut \/ LoopAt("cross"))
  /\ UNCHANGED <<rowOfKey, barred, attack, stance, seen, failed, late, dues, undone, answered>>

ReputationNext ==
  \/ \E e \in Events : Emit(e)
  \/ AuthSuccess \/ Forget
  \/ Take \/ ReadScore \/ WriteScore \/ AnswerFall \/ CountEvent \/ ReadStreak \/ RecordFail \/ Decide
  \/ \E p \in Policies : SetPolicy(p)
  \/ Arm \/ Trust \/ StartEngine \/ Unbar \/ (\E m \in {2, 5, 10, 15} : Pass(m)) \/ RepRestart
ReputationSpec == ReputationInit /\ [][ReputationNext]_reputationVars

ReputationTypeOK ==
  /\ {success, streak, score, seen, turns, failed, dues} \subseteq Nat
  /\ {cold, barred, armed, trusted, judging, late, undone, answered, cut} \subseteq BOOLEAN
  /\ channel \in Seq(Events) /\ window \in [Rules -> Nat] /\ attack \subseteq {Category[r] : r \in Rules}
  /\ policy \in SanePolicies

\* A streak is of failures since the last login that succeeded, and so is what the loop is about to
\* judge by; unless a failure was on its way when the login was recorded.
StreakIsOfNow ==
  late \/ (streak <= failed /\ (judge.pc \in {"record", "decide"} => judge.streak <= failed))
\* A key is not worse off than its events since it was forgotten make it, unless the score was being
\* written when it was.
ScoreIsEarned == undone \/ score + dues >= 100
\* A key of a score below the threshold met the answer the administrator chose, unless a restart came first.
LowScoreIsAnswered == score < ScoreThreshold => answered \/ LoopAt("cross") \/ cut
ReputationConsistent == StreakIsOfNow /\ ScoreIsEarned /\ LowScoreIsAnswered
=============================================================================
