----------------------------- MODULE MCStrategies ---------------------------
(* The strategies for TLC: every mode, each for as long as its rules need. *)
EXTENDS Strategies

AllModes == AutoBBSModes \cup LimitModes \cup OpenOrUpdate \cup Banded

Days == [m \in AllModes |->
            CASE m \in DayTrading -> 2
              [] m = "Limit_BreakOutOnPivot" -> 3
              [] m \in {"Ichimoko_Daily_V2", "KeyK"} \cup MACD_DailyModes -> 3
              [] m \in OrderADayModes \ {"Ichimoko_Daily_V2"} -> 4
              [] m \in {"Auto", "ATR_Hedge", "BBS_4HSwing", "Weekly_Swing_New", "MultipleDay", "MultipleDay_V2", "Limit"} -> 2
              [] m \in BEILIModes -> 4
              [] m \in OpenOrUpdate \cup (Banded \ {"KeyK"}) -> 5
              [] OTHER -> 1]
Orders == [m \in AllModes |->
            CASE m = "Ichimoko_Daily_V2" -> 3
              [] m \in {"4H_Shellington"} \cup Banded -> 6
              [] m \in {"Auto_KeyK", "WeeklyAuto", "Weekly_Swing_New", "Limit_BreakOutOnPivot"} -> 3
              [] m = "Limit" -> 2
              [] OTHER -> 4]
PivotLines == <<2, 3, 2>>
Wins == [side \in Sides |-> IF side = "BUY" THEN 2 ELSE 1]
=============================================================================
