------------------------ MODULE BucketConfigProofs ------------------------
(***************************************************************************)
(* What is proved of BucketConfig for any set of commands and of builds:   *)
(* its types, that a command which found its tag under protection all the  *)
(* time never writes it, and that a stamp on which all commands under way  *)
(* agree is never changed again.                                           *)
(***************************************************************************)
EXTENDS BucketConfig, TLAPS

LEMMA UnsetType == Unset \in Config
  BY DEF Unset, Config

\* Moving a command on and ending it keep the type of client.
LEMMA GotoType ==
  ASSUME TypeOK, NEW c \in Client, NEW pc \in Pc, Goto(c, pc)
  PROVE  client' \in [Client -> ClientState]
  BY DEF TypeOK, Goto, ClientState

LEMMA LeaveType ==
  ASSUME TypeOK, NEW c \in Client, Leave(c)
  PROVE  client' \in [Client -> ClientState]
  BY UnsetType DEF TypeOK, Leave, ClientState, Pc

LEMMA BeginType ==
  ASSUME TypeOK, NEW c \in Client, NEW pc \in Pc, NEW force \in BOOLEAN, Begin(c, pc, force)
  PROVE  TypeOK'
<1>1. client' \in [Client -> ClientState]
  BY DEF TypeOK, Begin, ClientState
<1>2. shielded' \in [Client -> BOOLEAN]
  BY DEF TypeOK, Begin
<1> QED
  BY <1>1, <1>2 DEF TypeOK, Begin

\* Every variable keeps its type in every behaviour.
THEOREM TypeCorrect == Spec => []TypeOK
<1>1. ASSUME Init PROVE TypeOK
  <2>1. config \in Config
    BY <1>1 DEF Init, Unset, Config
  <2>2. client \in [Client -> ClientState]
    BY <1>1, UnsetType DEF Init, ClientState, Pc
  <2> QED
    BY <1>1, <2>1, <2>2 DEF Init, TypeOK
<1>2. ASSUME TypeOK, [Next]_vars PROVE TypeOK'
  <2>1. CASE UNCHANGED vars
    BY <1>2, <2>1 DEF TypeOK, vars
  <2>2. ASSUME NEW c \in Client, PushBegin(c) PROVE TypeOK'
    BY <1>2, <2>2, BeginType, ConfigAssumption DEF PushBegin, Pc
  <2>3. ASSUME NEW c \in Client, ReadPolicy(c) PROVE TypeOK'
    BY <1>2, <2>3, GotoType DEF TypeOK, ReadPolicy, Pc
  <2>4. ASSUME NEW c \in Client, HeadTag(c) PROVE TypeOK'
    BY <1>2, <2>4, GotoType, LeaveType DEF TypeOK, HeadTag, Pc
  <2>5. ASSUME NEW c \in Client, ReadConfig(c) PROVE TypeOK'
    BY <1>2, <2>5, LeaveType DEF TypeOK, ReadConfig, ClientState, Pc
  <2>6. ASSUME NEW c \in Client, Stamp(c) PROVE TypeOK'
    BY <1>2, <2>6, GotoType DEF TypeOK, Stamp, Observe, ClientState, Config, Pc
  <2>7. ASSUME NEW c \in Client, Upload(c) PROVE TypeOK'
    BY <1>2, <2>7, GotoType DEF TypeOK, Upload, ClientState, Pc
  <2>8. ASSUME NEW c \in Client, Publish(c) PROVE TypeOK'
    BY <1>2, <2>8, LeaveType DEF TypeOK, Publish, Observe
  <2>9. ASSUME NEW c \in Client, SetRead(c) PROVE TypeOK'
    <3>1. PICK pc \in Pc : pc = "write"
      BY DEF Pc
    <3>2. client' = [client EXCEPT ![c].pc = pc, ![c].copy = config]
      BY <2>9, <3>1 DEF SetRead
    <3>3. client' \in [Client -> ClientState]
      BY <1>2, <3>2 DEF TypeOK, ClientState
    <3> QED
      BY <1>2, <2>9, <3>3 DEF TypeOK, SetRead
  <2>10. ASSUME NEW c \in Client, SetWrite(c) PROVE TypeOK'
    <3>1. config' \in Config
      BY <1>2, <2>10 DEF TypeOK, SetWrite, Edits
    <3> QED
      BY <1>2, <2>10, <3>1, LeaveType DEF TypeOK, SetWrite, Observe
  <2>11. ASSUME NEW c \in Client, DeleteBegin(c) PROVE TypeOK'
    BY <1>2, <2>11, BeginType, ConfigAssumption DEF DeleteBegin, Pc
  <2>12. ASSUME NEW c \in Client, DeleteGuard(c) PROVE TypeOK'
    BY <1>2, <2>12, GotoType, LeaveType DEF TypeOK, DeleteGuard, Pc
  <2>13. ASSUME NEW c \in Client, DeleteKeys(c) PROVE TypeOK'
    BY <1>2, <2>13, LeaveType DEF TypeOK, DeleteKeys, Observe
  <2>14. ASSUME NEW c \in Client, Fail(c) PROVE TypeOK'
    BY <1>2, <2>14, LeaveType DEF TypeOK, Fail
  <2> QED
    BY <1>2, <2>1, <2>2, <2>3, <2>4, <2>5, <2>6, <2>7, <2>8, <2>9, <2>10,
       <2>11, <2>12, <2>13, <2>14 DEF Next
<1> QED
  BY <1>1, <1>2, PTL DEF Spec

-----------------------------------------------------------------------------

\* Shielded is not inductive alone: that ReadPolicy and HeadTag send a
\* shielded command away needs that the ghost implies the present state.
ShieldedInv == Shielded /\ \A c \in Client : shielded[c] => Taken

LEMMA BeginShielded ==
  ASSUME TypeOK, ShieldedInv, NEW c \in Client, NEW force \in BOOLEAN,
         NEW pc \in Pc, ~force => pc \in {"policy", "guard"}, Begin(c, pc, force)
  PROVE  ShieldedInv'
<1>1. config' = config /\ tag' = tag
  BY DEF Begin
<1>2. client'[c].pc = pc /\ (shielded'[c] <=> Taken /\ ~force)
  BY DEF Begin, TypeOK, ClientState
<1>3. \A d \in Client \ {c} : client'[d] = client[d] /\ shielded'[d] = shielded[d]
  BY DEF Begin, TypeOK
<1>4. Shielded'
  BY <1>2, <1>3 DEF ShieldedInv, Shielded
<1>5. Taken' <=> Taken
  BY <1>1 DEF Taken
<1>6. \A d \in Client : shielded'[d] => Taken
  BY <1>2, <1>3 DEF ShieldedInv
<1> QED
  BY <1>4, <1>5, <1>6 DEF ShieldedInv

\* A command run without --force reaches its write or its deletion only if
\* the tag was free, or the image not immutable, at some moment since it
\* began (enforceTagWritePolicy, Delete).
THEOREM ShieldedCorrect == Spec => []Shielded
<1>1. Init => ShieldedInv
  BY DEF Init, ShieldedInv, Shielded
<1>2. ASSUME TypeOK, ShieldedInv, [Next]_vars PROVE ShieldedInv'
  <2>1. CASE UNCHANGED vars
    BY <1>2, <2>1 DEF ShieldedInv, Shielded, Taken, vars
  <2>2. ASSUME NEW c \in Client, PushBegin(c) PROVE ShieldedInv'
    BY <1>2, <2>2, BeginShielded, ConfigAssumption DEF PushBegin, Pc
  <2>3. ASSUME NEW c \in Client, ReadPolicy(c) PROVE ShieldedInv'
    BY <1>2, <2>3 DEF ShieldedInv, Shielded, TypeOK, ClientState, Taken, ReadPolicy, Goto
  <2>4. ASSUME NEW c \in Client, HeadTag(c) PROVE ShieldedInv'
    BY <1>2, <2>4 DEF ShieldedInv, Shielded, TypeOK, ClientState, Taken, HeadTag, Goto, Leave
  <2>5. ASSUME NEW c \in Client, ReadConfig(c) PROVE ShieldedInv'
    BY <1>2, <2>5 DEF ShieldedInv, Shielded, TypeOK, ClientState, Taken, ReadConfig, At, Leave
  <2>6. ASSUME NEW c \in Client, Stamp(c) PROVE ShieldedInv'
    BY <1>2, <2>6 DEF ShieldedInv, Shielded, TypeOK, ClientState, Taken, Stamp, At, Goto, Observe
  <2>7. ASSUME NEW c \in Client, Upload(c) PROVE ShieldedInv'
    BY <1>2, <2>7 DEF ShieldedInv, Shielded, TypeOK, ClientState, Taken, Upload, At, Goto
  <2>8. ASSUME NEW c \in Client, Publish(c) PROVE ShieldedInv'
    BY <1>2, <2>8 DEF ShieldedInv, Shielded, TypeOK, ClientState, Taken, Publish, Leave, Observe
  <2>9. ASSUME NEW c \in Client, SetRead(c) PROVE ShieldedInv'
    BY <1>2, <2>9 DEF ShieldedInv, Shielded, TypeOK, ClientState, Taken, SetRead
  <2>10. ASSUME NEW c \in Client, SetWrite(c) PROVE ShieldedInv'
    BY <1>2, <2>10 DEF ShieldedInv, Shielded, TypeOK, ClientState, Taken, SetWrite, Leave, Observe
  <2>11. ASSUME NEW c \in Client, DeleteBegin(c) PROVE ShieldedInv'
    BY <1>2, <2>11, BeginShielded, ConfigAssumption DEF DeleteBegin, Pc
  <2>12. ASSUME NEW c \in Client, DeleteGuard(c) PROVE ShieldedInv'
    BY <1>2, <2>12 DEF ShieldedInv, Shielded, TypeOK, ClientState, Taken, DeleteGuard, Goto, Leave
  <2>13. ASSUME NEW c \in Client, DeleteKeys(c) PROVE ShieldedInv'
    BY <1>2, <2>13 DEF ShieldedInv, Shielded, TypeOK, ClientState, Taken, DeleteKeys, Leave, Observe
  <2>14. ASSUME NEW c \in Client, Fail(c) PROVE ShieldedInv'
    BY <1>2, <2>14 DEF ShieldedInv, Shielded, TypeOK, ClientState, Taken, Fail, Leave
  <2> QED
    BY <1>2, <2>1, <2>2, <2>3, <2>4, <2>5, <2>6, <2>7, <2>8, <2>9, <2>10,
       <2>11, <2>12, <2>13, <2>14 DEF Next
<1>3. ShieldedInv => Shielded
  BY DEF ShieldedInv
<1> QED
  BY <1>1, <1>2, <1>3, TypeCorrect, PTL DEF Spec

-----------------------------------------------------------------------------

\* Once the stamp is there and every command under way agrees with it, no
\* push of any build and no config set changes it or stores a chunk of
\* another format (comment on ChunkFormat).
THEOREM SettledCorrect == Spec => SettledForGood
<1> DEFINE Kept == /\ Settled'
                   /\ config'.format = config.format
                   /\ chunks' \subseteq chunks \union {config.format}
<1>1. ASSUME TypeOK, [Next]_vars, Settled PROVE Kept
  <2>1. CASE UNCHANGED vars
    BY <1>1, <2>1 DEF Settled, At, vars
  <2>2. ASSUME NEW c \in Client, PushBegin(c) PROVE Kept
    BY <1>1, <2>2 DEF Settled, TypeOK, ClientState, PushBegin, Begin, At
  <2>3. ASSUME NEW c \in Client, ReadPolicy(c) PROVE Kept
    BY <1>1, <2>3 DEF Settled, TypeOK, ClientState, ReadPolicy, Goto, At
  <2>4. ASSUME NEW c \in Client, HeadTag(c) PROVE Kept
    BY <1>1, <2>4 DEF Settled, TypeOK, ClientState, HeadTag, Goto, Leave, At
  <2>5. ASSUME NEW c \in Client, ReadConfig(c) PROVE Kept
    BY <1>1, <2>5 DEF Settled, TypeOK, ClientState, ReadConfig, Leave, At
  <2>6. ASSUME NEW c \in Client, Stamp(c) PROVE Kept
    BY <1>1, <2>6 DEF Settled, TypeOK, ClientState, Config, Stamp, Goto, At
  <2>7. ASSUME NEW c \in Client, Upload(c) PROVE Kept
    BY <1>1, <2>7 DEF Settled, TypeOK, ClientState, Upload, Goto, At
  <2>8. ASSUME NEW c \in Client, Publish(c) PROVE Kept
    BY <1>1, <2>8 DEF Settled, TypeOK, ClientState, Publish, Leave, At
  <2>9. ASSUME NEW c \in Client, SetRead(c) PROVE Kept
    BY <1>1, <2>9 DEF Settled, TypeOK, ClientState, SetRead, At
  <2>10. ASSUME NEW c \in Client, SetWrite(c) PROVE Kept
    <3>1. config'.format = client[c].copy.format
      BY <1>1, <2>10 DEF Edits, SetWrite
    <3> QED
      BY <1>1, <2>10, <3>1 DEF Settled, TypeOK, ClientState, SetWrite, Leave, At
  <2>11. ASSUME NEW c \in Client, DeleteBegin(c) PROVE Kept
    BY <1>1, <2>11 DEF Settled, TypeOK, ClientState, DeleteBegin, Begin, At
  <2>12. ASSUME NEW c \in Client, DeleteGuard(c) PROVE Kept
    BY <1>1, <2>12 DEF Settled, TypeOK, ClientState, DeleteGuard, Goto, Leave, At
  <2>13. ASSUME NEW c \in Client, DeleteKeys(c) PROVE Kept
    BY <1>1, <2>13 DEF Settled, TypeOK, ClientState, DeleteKeys, Leave, At
  <2>14. ASSUME NEW c \in Client, Fail(c) PROVE Kept
    BY <1>1, <2>14 DEF Settled, TypeOK, ClientState, Fail, Leave, At
  <2> QED
    BY <1>1, <2>1, <2>2, <2>3, <2>4, <2>5, <2>6, <2>7, <2>8, <2>9, <2>10,
       <2>11, <2>12, <2>13, <2>14 DEF Next
<1>2. TypeOK /\ [Next]_vars => [Settled => Kept]_vars
  BY <1>1
<1> QED
  BY <1>2, TypeCorrect, PTL DEF Spec, SettledForGood
=============================================================================
