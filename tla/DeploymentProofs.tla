--------------------------- MODULE DeploymentProofs ---------------------------
(***************************************************************************)
(* The powers a deployment hands out come back, for every script that      *)
(* lends them as those of the repository do, wherever a run crashes and    *)
(* however it is started again.                                            *)
(***************************************************************************)
EXTENDS DeploymentProperties, TLAPS

\* The script that is being executed.
script == Scripts[program][mode]

\* Position k lies between the instruction that lends and the one that gives back.
Inside(s, k, lend) == \E j \in DOMAIN s : s[j].op = lend /\ k \in {j + 1, j + 2}

\* At position k of script s: what was read is who the pool admin is, and the
\* pool admin is the deployer; while the helper has the role it is what was read.
AdminSound(s, k, admin, read) ==
    /\ \A r \in DOMAIN s :
           AdminRead(s, r) /\ r < k /\ ~Inside(s, k, "grant") => read = admin
    /\ \A a \in DOMAIN s :
           AdminKnown(s, a) /\ a < k =>
               IF Inside(s, k, "grant") THEN read = "signer" ELSE admin = "signer"

\* Once the system of the script is founded, its rate oracle belongs to the helper
\* only between the two transactions.
OwnerSound(s, k, owner) ==
    \A f \in DOMAIN s :
        Unskipped(s, f) /\ Founds(s[f]) /\ f < k /\ ~Inside(s, k, "lendRates")
            => owner # "helper"

Located ==
    /\ program \in Programs /\ mode \in DOMAIN Scripts[program]
    /\ pc \in Nat \ {0}
    /\ instruction = InstructionAt(script, pc)
    /\ status = "done" => instruction.op = "end"

\* The chain has the roles.
RolesExist == {"admin", "rateOwner"} \subseteq DOMAIN chain

IInv ==
    /\ Located
    /\ RolesExist
    /\ AdminSound(script, pc, chain.admin, adminRead)
    /\ OwnerSound(script, pc, chain.rateOwner)

------------------------------------------------------------------------------
(* Scripts *)

\* An instruction that lends is not between two others of its kind.
LEMMA LendsOutside ==
  ASSUME NEW s, NEW lend, NEW use, NEW giveBack, lend # use, lend # giveBack,
         Len(s) \in Nat, DOMAIN s = 1 .. Len(s), Bracketed(s, lend, use, giveBack),
         NEW k \in DOMAIN s, s[k].op = lend
  PROVE  ~Inside(s, k, lend)
  <1> SUFFICES ASSUME NEW j \in DOMAIN s, s[j].op = lend, k \in {j + 1, j + 2}
               PROVE  FALSE
    BY DEF Inside
  <1>1. s[j + 1].op = use /\ s[j + 2].op = giveBack BY DEF Bracketed
  <1> QED BY <1>1

\* The next position is inside when this one lends, or is inside and gives nothing
\* back; what gives back is inside, and nothing else but the use.
LEMMA InsideNext ==
  ASSUME NEW s, NEW lend, NEW use, NEW giveBack, lend # use, lend # giveBack, use # giveBack,
         Len(s) \in Nat, DOMAIN s = 1 .. Len(s), Bracketed(s, lend, use, giveBack),
         NEW k \in DOMAIN s
  PROVE  /\ Inside(s, k + 1, lend)
              <=> (s[k].op = lend \/ (Inside(s, k, lend) /\ s[k].op # giveBack))
         /\ s[k].op = giveBack => Inside(s, k, lend)
         /\ Inside(s, k, lend) => s[k].op \in {use, giveBack}
         /\ Inside(s, k, lend) => k + 1 \in DOMAIN s \/ s[k].op = giveBack
  <1>1. \A j \in DOMAIN s : s[j].op = lend =>
            j + 2 <= Len(s) /\ s[j + 1].op = use /\ s[j + 2].op = giveBack
    BY DEF Bracketed
  <1>2. k \in Nat /\ k >= 1 /\ k <= Len(s) OBVIOUS
  <1>3. Inside(s, k, lend) => s[k].op \in {use, giveBack} BY <1>1 DEF Inside
  <1>4. ASSUME Inside(s, k + 1, lend)
        PROVE  s[k].op = lend \/ (Inside(s, k, lend) /\ s[k].op # giveBack)
    <2>1. PICK j \in DOMAIN s : s[j].op = lend /\ k + 1 \in {j + 1, j + 2} BY <1>4 DEF Inside
    <2>2. CASE k + 1 = j + 1 BY <1>2, <2>1, <2>2
    <2>3. CASE k + 1 = j + 2
      <3>1. k = j + 1 BY <1>2, <2>1, <2>3
      <3>2. s[k].op = use BY <1>1, <2>1, <3>1
      <3> QED BY <2>1, <3>1, <3>2 DEF Inside
    <2> QED BY <2>1, <2>2, <2>3
  <1>5. ASSUME s[k].op = lend PROVE Inside(s, k + 1, lend) BY <1>5 DEF Inside
  <1>6. ASSUME Inside(s, k, lend), s[k].op # giveBack
        PROVE  Inside(s, k + 1, lend) /\ k + 1 \in DOMAIN s
    <2>1. PICK j \in DOMAIN s : s[j].op = lend /\ k \in {j + 1, j + 2} BY <1>6 DEF Inside
    <2>2. k = j + 1 BY <1>1, <1>6, <2>1
    <2>3. k + 1 = j + 2 /\ j + 2 <= Len(s) BY <1>1, <2>1, <2>2
    <2> QED BY <1>2, <2>1, <2>3 DEF Inside
  <1>7. s[k].op = giveBack => Inside(s, k, lend)
    <2> SUFFICES ASSUME s[k].op = giveBack PROVE Inside(s, k, lend) OBVIOUS
    <2>1. k > 2 /\ s[k - 2].op = lend BY DEF Bracketed
    <2>2. k - 2 \in DOMAIN s /\ k = (k - 2) + 2 BY <1>2, <2>1
    <2> QED BY <2>1, <2>2 DEF Inside
  <1> QED BY <1>3, <1>4, <1>5, <1>6, <1>7

\* What an instruction does to the pool admin and to what the process read of it.
AdminMove(I, admin, read, newAdmin, newRead) ==
    /\ I.asAdmin => admin = "signer"
    /\ newAdmin = CASE I.op = "admin"  -> "signer"
                    [] I.op = "grant"  -> "helper"
                    [] I.op = "return" -> read
                    [] Founds(I)       -> "none"
                    [] OTHER           -> admin
    /\ newRead = IF I.op = "readAdmin" THEN admin ELSE read

\* The position after an instruction.
Follows(I, k, newK) ==
    \/ newK = k + 1
    \/ I.op = "skip" /\ newK = k + 1 + I.args[3]

\* A skip leads to no position inside, and there is none inside.
LEMMA SkipsOutside ==
  ASSUME NEW s, Disciplined(s), NEW k \in DOMAIN s, s[k].op = "skip", NEW newK \in Nat,
         Follows(s[k], k, newK), NEW lend \in {"grant", "lendRates"}
  PROVE  ~Inside(s, k, lend) /\ ~Inside(s, newK, lend) /\ newK > k
  <1>1. Len(s) \in Nat /\ DOMAIN s = 1 .. Len(s) BY DEF Disciplined
  <1>2. s[k].args[3] \in Nat BY DEF Disciplined
  <1>3. /\ Bracketed(s, "grant", "configure", "return")
        /\ Bracketed(s, "lendRates", "rates", "returnRates")
    BY DEF Disciplined
  <1>4. ~Inside(s, k, lend) /\ ~Inside(s, k + 1, lend)
    <2>1. CASE lend = "grant" BY <1>1, <1>3, <2>1, InsideNext
    <2>2. CASE lend = "lendRates" BY <1>1, <1>3, <2>2, InsideNext
    <2> QED BY <2>1, <2>2
  <1>5. ~Inside(s, k + 1 + s[k].args[3], lend)
    BY DEF Disciplined, Inside
  <1> QED BY <1>1, <1>2, <1>4, <1>5 DEF Follows

\* A position no skip passes over is behind only after it was executed.
LEMMA BehindNext ==
  ASSUME NEW s, Disciplined(s), NEW k \in DOMAIN s, NEW newK \in Nat,
         Follows(s[k], k, newK), NEW a \in DOMAIN s, Unskipped(s, a), a < newK
  PROVE  a < k \/ a = k
  <1>1. Len(s) \in Nat /\ DOMAIN s = 1 .. Len(s) BY DEF Disciplined
  <1>2. CASE newK = k + 1 BY <1>1, <1>2
  <1>3. CASE s[k].op = "skip" /\ newK = k + 1 + s[k].args[3]
    <2>1. s[k].args[3] \in Nat BY <1>3 DEF Disciplined
    <2>2. SUFFICES ASSUME a > k PROVE FALSE BY <1>1
    <2>3. k + s[k].args[3] < a BY <1>1, <1>3, <2>2 DEF Unskipped
    <2> QED BY <1>1, <1>3, <2>1, <2>3
  <1> QED BY <1>2, <1>3 DEF Follows

\* An instruction keeps the pool admin accounted for.
LEMMA AdminAdvances ==
  ASSUME NEW s, Disciplined(s), NEW k \in DOMAIN s, NEW newK \in Nat,
         NEW admin, NEW read, NEW newAdmin, NEW newRead,
         AdminSound(s, k, admin, read),
         AdminMove(s[k], admin, read, newAdmin, newRead), Follows(s[k], k, newK)
  PROVE  AdminSound(s, newK, newAdmin, newRead)
  <1> DEFINE here == Inside(s, k, "grant")
             next == Inside(s, newK, "grant")
  <1>1. /\ Len(s) \in Nat /\ DOMAIN s = 1 .. Len(s)
        /\ Bracketed(s, "grant", "configure", "return")
    BY DEF Disciplined
  <1>2. \A r \in DOMAIN s : AdminRead(s, r) /\ r < newK => r < k \/ r = k
    BY BehindNext DEF AdminRead
  <1>3. \A a \in DOMAIN s : AdminKnown(s, a) /\ a < newK => a < k \/ a = k
    BY BehindNext DEF AdminKnown
  <1>4. \A r \in DOMAIN s : AdminRead(s, r) /\ (r < k \/ r = k) =>
           /\ s[r].op = "readAdmin"
           /\ s[k].op # "admin" /\ ~Founds(s[k])
    BY <1>1 DEF AdminRead
  <1>5. \A a \in DOMAIN s : AdminKnown(s, a) /\ (a < k \/ a = k) =>
           /\ ~Founds(s[k])
           /\ s[a].asAdmin \/ s[a].op = "admin"
    BY <1>1 DEF AdminKnown
  <1>6. \A r \in DOMAIN s : AdminRead(s, r) /\ r < k /\ ~here => read = admin
    BY DEF AdminSound
  <1>7. \A a \in DOMAIN s : AdminKnown(s, a) /\ a < k =>
           IF here THEN read = "signer" ELSE admin = "signer"
    BY DEF AdminSound
  <1>8. /\ s[k].asAdmin => admin = "signer"
        /\ s[k].op = "admin" => newAdmin = "signer"
        /\ s[k].op = "grant" => newAdmin = "helper"
        /\ s[k].op = "return" => newAdmin = read
        /\ s[k].op \notin {"admin", "grant", "return"} /\ ~Founds(s[k]) => newAdmin = admin
        /\ s[k].op = "readAdmin" => newRead = admin
        /\ s[k].op # "readAdmin" => newRead = read
    BY DEF AdminMove, Founds
  <1>9. CASE s[k].op = "skip"
    <2>1. ~here /\ ~next BY <1>9, SkipsOutside
    <2>2. newAdmin = admin /\ newRead = read BY <1>8, <1>9 DEF Founds
    <2>3. \A r \in DOMAIN s : AdminRead(s, r) /\ r < newK => newRead = newAdmin
      BY <1>2, <1>4, <1>6, <1>9, <2>1, <2>2
    <2>4. \A a \in DOMAIN s : AdminKnown(s, a) /\ a < newK => newAdmin = "signer"
      BY <1>3, <1>5, <1>7, <1>8, <1>9, <2>1, <2>2
    <2> QED BY <2>1, <2>3, <2>4 DEF AdminSound
  <1>10. CASE s[k].op # "skip"
    <2>1. newK = k + 1 BY <1>10 DEF Follows
    <2>2. /\ next <=> (s[k].op = "grant" \/ (here /\ s[k].op # "return"))
          /\ s[k].op = "return" => here
          /\ here => s[k].op \in {"configure", "return"}
      BY <1>1, <2>1, InsideNext
    <2> HIDE DEF here, next
    <2>3. ASSUME s[k].op = "grant" PROVE read = "signer"
      <3>1. PICK a \in 1 .. k - 1 : AdminKnown(s, a) BY <2>3 DEF Disciplined
      <3>2. PICK r \in 1 .. k - 1 : AdminRead(s, r) BY <2>3 DEF Disciplined
      <3>3. a \in DOMAIN s /\ a < k /\ r \in DOMAIN s /\ r < k BY <1>1, <3>1, <3>2
      <3>4. ~here BY <2>2, <2>3
      <3> QED BY <1>6, <1>7, <3>1, <3>2, <3>3, <3>4
    <2>4. ASSUME here PROVE read = "signer"
      <3>1. PICK j \in DOMAIN s : s[j].op = "grant" /\ k \in {j + 1, j + 2}
        BY <2>4 DEF here, Inside
      <3>2. PICK a \in 1 .. j - 1 : AdminKnown(s, a) BY <3>1 DEF Disciplined
      <3>3. a \in DOMAIN s /\ a < k BY <1>1, <3>1, <3>2
      <3> QED BY <1>7, <2>4, <3>2, <3>3
    <2>5. next => newRead = "signer"
      BY <1>8, <2>2, <2>3, <2>4
    <2>6. ASSUME NEW r \in DOMAIN s, AdminRead(s, r), r < newK, ~next
          PROVE  newRead = newAdmin
      <3>1. /\ r < k \/ r = k
            /\ s[r].op = "readAdmin" /\ s[k].op # "admin" /\ ~Founds(s[k])
        BY <1>2, <1>4, <2>6
      <3>2. CASE s[k].op = "readAdmin" BY <1>8, <3>1, <3>2
      <3>3. CASE s[k].op = "return" BY <1>8, <3>3
      <3>4. CASE s[k].op \notin {"readAdmin", "return"}
        <4>1. r < k /\ ~here /\ s[k].op # "grant" BY <2>2, <2>6, <3>1, <3>4
        <4> QED BY <1>6, <1>8, <2>6, <3>1, <3>4, <4>1
      <3> QED BY <3>2, <3>3, <3>4
    <2>7. ASSUME NEW a \in DOMAIN s, AdminKnown(s, a), a < newK, ~next
          PROVE  newAdmin = "signer"
      <3>1. /\ a < k \/ a = k
            /\ ~Founds(s[k]) /\ (s[a].asAdmin \/ s[a].op = "admin")
        BY <1>3, <1>5, <2>7
      <3>2. CASE s[k].op = "return"
        <4>1. here BY <2>2, <3>2
        <4> QED BY <1>8, <2>4, <3>2, <4>1
      <3>3. CASE s[k].op # "return"
        <4>1. ~here /\ s[k].op # "grant" BY <2>2, <2>7, <3>3
        <4>2. admin = "signer" \/ s[k].op = "admin" BY <1>7, <1>8, <2>7, <3>1, <4>1
        <4> QED BY <1>8, <3>1, <3>3, <4>1, <4>2
      <3> QED BY <3>2, <3>3
    <2> QED BY <2>5, <2>6, <2>7 DEF AdminSound, next
  <1> QED BY <1>9, <1>10

\* What an instruction does to the owner of the rate oracle.
OwnerMove(I, owner, newOwner) ==
    /\ I.op = "lendRates" => newOwner = "helper"
    /\ I.op # "lendRates" => newOwner \in {owner, "signer", "none"}
    /\ I.op = "returnRates" => newOwner = "signer"
    /\ Founds(I) => newOwner = "none"

\* An instruction keeps the owner accounted for.
LEMMA OwnerAdvances ==
  ASSUME NEW s, Disciplined(s), NEW k \in DOMAIN s, NEW newK \in Nat,
         NEW owner, NEW newOwner,
         OwnerSound(s, k, owner), OwnerMove(s[k], owner, newOwner), Follows(s[k], k, newK)
  PROVE  OwnerSound(s, newK, newOwner)
  <1> DEFINE here == Inside(s, k, "lendRates")
             next == Inside(s, newK, "lendRates")
  <1>1. /\ Len(s) \in Nat /\ DOMAIN s = 1 .. Len(s)
        /\ Bracketed(s, "lendRates", "rates", "returnRates")
    BY DEF Disciplined
  <1> SUFFICES ASSUME NEW f \in DOMAIN s, Unskipped(s, f), Founds(s[f]), f < newK, ~next
               PROVE  newOwner # "helper"
    BY DEF OwnerSound
  <1>2. f < k \/ f = k BY BehindNext
  <1>3. f < k /\ ~here => owner # "helper" BY DEF OwnerSound
  <1>4. CASE s[k].op = "skip"
    <2>1. ~here BY <1>4, SkipsOutside
    <2>2. f < k BY <1>2, <1>4 DEF Founds
    <2> QED BY <1>3, <1>4, <2>1, <2>2 DEF OwnerMove
  <1>5. CASE s[k].op # "skip"
    <2>1. newK = k + 1 BY <1>5 DEF Follows
    <2>2. next <=> (s[k].op = "lendRates" \/ (here /\ s[k].op # "returnRates"))
      BY <1>1, <2>1, InsideNext
    <2> HIDE DEF here, next
    <2>3. CASE s[k].op = "returnRates" BY <2>3 DEF OwnerMove
    <2>4. CASE s[k].op # "returnRates"
      <3>1. ~here /\ s[k].op # "lendRates" BY <2>2, <2>4
      <3>2. CASE f = k BY <3>2 DEF OwnerMove
      <3>3. CASE f < k BY <1>3, <3>1, <3>3 DEF OwnerMove
      <3> QED BY <1>2, <3>2, <3>3
    <2> QED BY <2>3, <2>4
  <1> QED BY <1>4, <1>5

------------------------------------------------------------------------------
(* Steps *)

\* An instruction was executed: what became of the position and of the roles.
Moved ==
    /\ status = "running" /\ instruction.op # "end"
    /\ UNCHANGED <<program, mode, status>>
    /\ Follows(instruction, pc, pc')
    /\ instruction' = InstructionAt(script, pc')
    /\ RolesExist'
    /\ AdminMove(instruction, chain.admin, adminRead, chain'.admin, adminRead')
    /\ OwnerMove(instruction, chain.rateOwner, chain'.rateOwner)

RoleOps == {"save", "admin", "grant", "return", "readAdmin", "lendRates", "returnRates"}

\* The parts of Moved that hold whatever the instruction does.
LEMMA ExecutesMoves ==
  ASSUME NEW ops, Executes(ops), Goto(pc + 1)
  PROVE  /\ status = "running" /\ instruction.op # "end" /\ instruction.op \in ops
         /\ UNCHANGED <<program, mode, status>>
         /\ Follows(instruction, pc, pc')
         /\ instruction' = InstructionAt(script, pc')
         /\ instruction.asAdmin => chain.admin = "signer"
  BY DEF Executes, AtInstruction, CanRun, operation, Goto, Follows, script

\* An instruction that leaves the roles alone.
LEMMA RolesKept ==
  ASSUME RolesExist, NEW ops, Executes(ops), ops \cap RoleOps = {}, Goto(pc + 1),
         RolesExist', adminRead' = adminRead,
         chain'.admin = chain.admin, chain'.rateOwner = chain.rateOwner
  PROVE  Moved
  <1>1. instruction.op \in ops /\ instruction.op \notin RoleOps BY ExecutesMoves
  <1>2. ~Founds(instruction) BY <1>1 DEF RoleOps, Founds
  <1>3. AdminMove(instruction, chain.admin, adminRead, chain'.admin, adminRead')
    BY <1>1, <1>2, ExecutesMoves DEF RoleOps, AdminMove
  <1>4. OwnerMove(instruction, chain.rateOwner, chain'.rateOwner)
    BY <1>1, <1>2 DEF RoleOps, OwnerMove
  <1> QED BY <1>3, <1>4, ExecutesMoves DEF Moved

\* A change of another field of the chain.
LEMMA FieldChanged ==
  ASSUME RolesExist, NEW field, field \notin {"admin", "rateOwner"}, NEW value,
         chain' = [chain EXCEPT ![field] = value]
  PROVE  RolesExist' /\ chain'.admin = chain.admin /\ chain'.rateOwner = chain.rateOwner
  BY DEF RolesExist

\* Contracts, names and the provider.
LEMMA DeployMoves == RolesExist /\ DeployContract => Moved
  <1> SUFFICES ASSUME RolesExist, DeployContract PROVE Moved OBVIOUS
  <1>1. Executes({"new"}) /\ Goto(pc + 1) /\ adminRead' = adminRead BY DEF DeployContract
  <1>2. \/ chain' = chain
        \/ chain' = [chain EXCEPT !.rateOwner = "signer"]
    BY DEF DeployContract
  <1>3. RolesExist' /\ chain'.admin = chain.admin /\ chain'.rateOwner \in {chain.rateOwner, "signer"}
    BY <1>2 DEF RolesExist
  <1>4. instruction.op = "new" BY <1>1, ExecutesMoves
  <1>5. AdminMove(instruction, chain.admin, adminRead, chain'.admin, adminRead')
    BY <1>1, <1>3, <1>4, ExecutesMoves DEF AdminMove, Founds
  <1>6. OwnerMove(instruction, chain.rateOwner, chain'.rateOwner)
    BY <1>3, <1>4 DEF OwnerMove, Founds
  <1> QED BY <1>1, <1>3, <1>5, <1>6, ExecutesMoves DEF Moved

LEMMA SaveMoves == RolesExist /\ SaveContract => Moved
  <1> SUFFICES ASSUME RolesExist, SaveContract PROVE Moved OBVIOUS
  <1>1. Executes({"save"}) /\ Goto(pc + 1) /\ adminRead' = adminRead
    BY DEF SaveContract, memory
  <1>2. chain' = IF Founds(instruction) THEN EmptyChain ELSE chain BY DEF SaveContract
  <1>3. /\ EmptyChain.admin = "none" /\ EmptyChain.rateOwner = "none"
        /\ {"admin", "rateOwner"} \subseteq DOMAIN EmptyChain
    BY DEF EmptyChain
  <1>4. RolesExist' BY <1>2, <1>3 DEF RolesExist
  <1>5. instruction.op = "save" BY <1>1, ExecutesMoves
  <1>6. AdminMove(instruction, chain.admin, adminRead, chain'.admin, adminRead')
    BY <1>1, <1>2, <1>3, <1>5, ExecutesMoves DEF AdminMove
  <1>7. OwnerMove(instruction, chain.rateOwner, chain'.rateOwner)
    BY <1>2, <1>3, <1>5 DEF OwnerMove
  <1> QED BY <1>1, <1>4, <1>6, <1>7, ExecutesMoves DEF Moved

LEMMA TakeOverMoves == RolesExist /\ TakeOverOrDeploy => Moved
  <1> SUFFICES ASSUME RolesExist, TakeOverOrDeploy PROVE Moved OBVIOUS
  <1>1. /\ Executes({"skip"}) /\ adminRead' = adminRead /\ chain' = chain
        /\ Goto(pc + 1) \/ Goto(pc + 1 + instruction.args[3])
    BY DEF TakeOverOrDeploy
  <1>2. /\ status = "running" /\ instruction.op = "skip"
        /\ UNCHANGED <<program, mode, status>>
        /\ instruction.asAdmin => chain.admin = "signer"
    BY <1>1 DEF Executes, AtInstruction, CanRun, operation
  <1>3. Follows(instruction, pc, pc') /\ instruction' = InstructionAt(script, pc')
    BY <1>1, <1>2 DEF Goto, Follows, script
  <1>4. AdminMove(instruction, chain.admin, adminRead, chain'.admin, adminRead')
    BY <1>1, <1>2 DEF AdminMove, Founds
  <1>5. OwnerMove(instruction, chain.rateOwner, chain'.rateOwner)
    BY <1>1, <1>2 DEF OwnerMove, Founds
  <1>6. RolesExist' BY <1>1 DEF RolesExist
  <1> QED BY <1>2, <1>3, <1>4, <1>5, <1>6 DEF Moved

\* The roles: named, read, lent and given back.
LEMMA RoleMoves ==
  RolesExist /\ (\/ SetPoolAdmin \/ ReadPoolAdmin \/ LendPoolAdmin \/ ReturnPoolAdmin
                 \/ LendRateOracle \/ ReturnRateOracle) => Moved
  <1> SUFFICES ASSUME RolesExist,
                      \/ SetPoolAdmin \/ ReadPoolAdmin \/ LendPoolAdmin \/ ReturnPoolAdmin
                      \/ LendRateOracle \/ ReturnRateOracle
               PROVE  Moved
    OBVIOUS
  <1>1. CASE ReadPoolAdmin
    <2>1. /\ Executes({"readAdmin"}) /\ Goto(pc + 1)
          /\ adminRead' = chain.admin /\ chain' = chain
      BY <1>1 DEF ReadPoolAdmin
    <2>2. instruction.op = "readAdmin" BY <2>1, ExecutesMoves
    <2>3. AdminMove(instruction, chain.admin, adminRead, chain'.admin, adminRead')
      BY <2>1, <2>2, ExecutesMoves DEF AdminMove, Founds
    <2>4. OwnerMove(instruction, chain.rateOwner, chain'.rateOwner)
      BY <2>1, <2>2 DEF OwnerMove, Founds
    <2> QED BY <2>1, <2>3, <2>4, ExecutesMoves DEF Moved, RolesExist
  <1>2. ASSUME NEW op \in {"admin", "grant", "return"}, Executes({op}), NEW holder,
               OnChain([chain EXCEPT !.admin = holder]),
               holder = CASE op = "admin" -> "signer" [] op = "grant" -> "helper"
                          [] OTHER -> adminRead
        PROVE  Moved
    <2>1. Goto(pc + 1) /\ adminRead' = adminRead /\ chain' = [chain EXCEPT !.admin = holder]
      BY <1>2 DEF OnChain, memory
    <2>2. instruction.op = op BY <1>2, <2>1, ExecutesMoves
    <2>3. RolesExist' /\ chain'.admin = holder /\ chain'.rateOwner = chain.rateOwner
      BY <2>1 DEF RolesExist
    <2>4. AdminMove(instruction, chain.admin, adminRead, chain'.admin, adminRead')
      BY <1>2, <2>1, <2>2, <2>3, ExecutesMoves DEF AdminMove, Founds
    <2>5. OwnerMove(instruction, chain.rateOwner, chain'.rateOwner)
      BY <2>2, <2>3 DEF OwnerMove, Founds
    <2> QED BY <1>2, <2>1, <2>3, <2>4, <2>5, ExecutesMoves DEF Moved
  <1>3. ASSUME NEW op \in {"lendRates", "returnRates"}, Executes({op}), NEW holder,
               OnChain([chain EXCEPT !.rateOwner = holder]),
               holder = IF op = "lendRates" THEN "helper" ELSE "signer"
        PROVE  Moved
    <2>1. Goto(pc + 1) /\ adminRead' = adminRead /\ chain' = [chain EXCEPT !.rateOwner = holder]
      BY <1>3 DEF OnChain, memory
    <2>2. instruction.op = op BY <1>3, <2>1, ExecutesMoves
    <2>3. RolesExist' /\ chain'.rateOwner = holder /\ chain'.admin = chain.admin
      BY <2>1 DEF RolesExist
    <2>4. AdminMove(instruction, chain.admin, adminRead, chain'.admin, adminRead')
      BY <1>3, <2>1, <2>2, <2>3, ExecutesMoves DEF AdminMove, Founds
    <2>5. OwnerMove(instruction, chain.rateOwner, chain'.rateOwner)
      BY <1>3, <2>2, <2>3 DEF OwnerMove, Founds
    <2> QED BY <1>3, <2>1, <2>3, <2>4, <2>5, ExecutesMoves DEF Moved
  <1>4. CASE SetPoolAdmin BY <1>2, <1>4 DEF SetPoolAdmin
  <1>5. CASE LendPoolAdmin BY <1>2, <1>5 DEF LendPoolAdmin
  <1>6. CASE ReturnPoolAdmin BY <1>2, <1>6 DEF ReturnPoolAdmin
  <1>7. CASE LendRateOracle BY <1>3, <1>7 DEF LendRateOracle
  <1>8. CASE ReturnRateOracle BY <1>3, <1>8 DEF ReturnRateOracle
  <1> QED BY <1>1, <1>4, <1>5, <1>6, <1>7, <1>8

\* Everything else.
LEMMA OtherMoves ==
  RolesExist /\ (\/ LoadContract \/ Call \/ SetAddressAsProxy \/ SetAddress
                 \/ InitializeImplementation \/ RegisterVault \/ SetVaultTerms
                 \/ ReadInternalAsset \/ SetAssetSources \/ CopyAssetSource \/ SetAssetPrice
                 \/ WatchPairs \/ BatchInitReserve \/ RegisterAsset
                 \/ SetVariableYieldDistributor \/ ConfigureReserves
                 \/ AddCollateralAsset \/ RegisterLevSwapper) => Moved
  <1> SUFFICES ASSUME RolesExist,
                      \/ LoadContract \/ Call \/ SetAddressAsProxy \/ SetAddress
                      \/ InitializeImplementation \/ RegisterVault \/ SetVaultTerms
                      \/ ReadInternalAsset \/ SetAssetSources \/ CopyAssetSource \/ SetAssetPrice
                      \/ WatchPairs \/ BatchInitReserve \/ RegisterAsset
                      \/ SetVariableYieldDistributor \/ ConfigureReserves
                      \/ AddCollateralAsset \/ RegisterLevSwapper
               PROVE  Moved
    OBVIOUS
  <1>1. ASSUME NEW ops, ops \cap RoleOps = {}, Executes(ops), Goto(pc + 1),
               chain' = chain, adminRead' = adminRead
        PROVE  Moved
    BY <1>1, RolesKept DEF RolesExist
  <1>2. ASSUME NEW field \in {"slots", "sealed", "cuts", "issued", "prices", "reserves",
                              "rewards", "variable", "accepted", "swappers"},
               NEW value, NEW ops, ops \cap RoleOps = {}, Executes(ops), Goto(pc + 1),
               chain' = [chain EXCEPT ![field] = value], adminRead' = adminRead
        PROVE  Moved
    BY <1>2, FieldChanged, RolesKept
  <1>3. CASE LoadContract BY <1>1, <1>3 DEF LoadContract, RoleOps
  <1>4. CASE Call BY <1>1, <1>4 DEF Call, OnChain, memory, RoleOps
  <1>5. CASE SetAddressAsProxy
    <2>1. PICK value : chain' = [chain EXCEPT !.slots = value]
      BY <1>5 DEF SetAddressAsProxy
    <2> QED BY <1>2, <1>5, <2>1 DEF SetAddressAsProxy, RoleOps
  <1>6. CASE SetAddress BY <1>2, <1>6 DEF SetAddress, OnChain, memory, RoleOps
  <1>7. CASE InitializeImplementation
    BY <1>2, <1>7 DEF InitializeImplementation, OnChain, memory, RoleOps
  <1>8. CASE RegisterVault
    <2>1. PICK vaults, cuts : chain' = [chain EXCEPT !.vaults = vaults, !.cuts = cuts]
      BY <1>8 DEF RegisterVault, OnChain
    <2>2. RolesExist' /\ chain'.admin = chain.admin /\ chain'.rateOwner = chain.rateOwner
      BY <2>1 DEF RolesExist
    <2> QED BY <1>8, <2>2, RolesKept DEF RegisterVault, OnChain, memory, RoleOps
  <1>9. CASE SetVaultTerms
    <2>1. PICK cuts : chain' = [chain EXCEPT !.cuts = cuts]
      BY <1>9 DEF SetVaultTerms, OnChain
    <2> QED BY <1>2, <1>9, <2>1 DEF SetVaultTerms, OnChain, memory, RoleOps
  <1>10. CASE ReadInternalAsset
    BY <1>2, <1>10 DEF ReadInternalAsset, RoleOps
  <1>11. CASE SetAssetSources BY <1>2, <1>11 DEF SetAssetSources, OnChain, memory, RoleOps
  <1>12. CASE CopyAssetSource BY <1>2, <1>12 DEF CopyAssetSource, OnChain, memory, RoleOps
  <1>13. CASE SetAssetPrice BY <1>2, <1>13 DEF SetAssetPrice, OnChain, memory, RoleOps
  <1>14. CASE WatchPairs BY <1>2, <1>14 DEF WatchPairs, OnChain, memory, RoleOps
  <1>15. CASE BatchInitReserve BY <1>2, <1>15 DEF BatchInitReserve, OnChain, memory, RoleOps
  <1>16. CASE RegisterAsset BY <1>2, <1>16 DEF RegisterAsset, OnChain, memory, RoleOps
  <1>17. CASE SetVariableYieldDistributor
    BY <1>2, <1>17 DEF SetVariableYieldDistributor, OnChain, memory, RoleOps
  <1>18. CASE ConfigureReserves BY <1>2, <1>18 DEF ConfigureReserves, OnChain, memory, RoleOps
  <1>19. CASE AddCollateralAsset BY <1>2, <1>19 DEF AddCollateralAsset, OnChain, memory, RoleOps
  <1>20. CASE RegisterLevSwapper BY <1>2, <1>20 DEF RegisterLevSwapper, OnChain, memory, RoleOps
  <1> QED BY <1>3, <1>4, <1>5, <1>6, <1>7, <1>8, <1>9, <1>10, <1>11, <1>12, <1>13, <1>14,
             <1>15, <1>16, <1>17, <1>18, <1>19, <1>20

------------------------------------------------------------------------------
(* The invariant *)

\* A run is somewhere in a script of the program, at the instruction there.
LEMMA ScriptLemma ==
  ASSUME Located
  PROVE  /\ Disciplined(script) /\ Len(script) \in Nat /\ DOMAIN script = 1 .. Len(script)
         /\ instruction.op # "end" => pc \in DOMAIN script /\ instruction = script[pc]
         /\ instruction.op = "end" => pc > Len(script)
  <1>1. Disciplined(script) BY RolesAssumption DEF Located, script
  <1>2. /\ Len(script) \in Nat /\ DOMAIN script = 1 .. Len(script)
        /\ \A k \in DOMAIN script : script[k].op # "end"
    BY <1>1 DEF Disciplined
  <1>3. /\ pc \in Nat \ {0}
        /\ instruction = IF pc <= Len(script) THEN script[pc]
                         ELSE [op |-> "end", args |-> <<>>, needs |-> {}, tokens |-> {},
                               asAdmin |-> FALSE]
    BY DEF Located, InstructionAt
  <1>4. CASE pc <= Len(script)
    <2>1. pc \in DOMAIN script /\ instruction = script[pc] BY <1>2, <1>3, <1>4
    <2> QED BY <1>1, <1>2, <2>1
  <1>5. CASE ~(pc <= Len(script))
    <2>1. instruction.op = "end" BY <1>3, <1>5
    <2> QED BY <1>1, <1>2, <1>3, <1>5, <2>1
  <1> QED BY <1>4, <1>5

LEMMA InitIInv == Init => IInv
  <1> SUFFICES ASSUME Init PROVE IInv OBVIOUS
  <1>1. Located BY ScriptsAssumption DEF Init, Located, script
  <1>2. RolesExist BY DEF Init, RolesExist, EmptyChain
  <1>3. Len(script) \in Nat /\ DOMAIN script = 1 .. Len(script) /\ pc = 1
    BY <1>1, ScriptLemma DEF Init
  <1>4. AdminSound(script, pc, chain.admin, adminRead) BY <1>3 DEF AdminSound
  <1>5. OwnerSound(script, pc, chain.rateOwner) BY <1>3 DEF OwnerSound
  <1> QED BY <1>1, <1>2, <1>4, <1>5 DEF IInv

LEMMA MovedIInv == IInv /\ Moved => IInv'
  <1> SUFFICES ASSUME IInv, Moved PROVE IInv' OBVIOUS
  <1>1. script' = script BY DEF Moved, script
  <1>2. /\ Disciplined(script) /\ Len(script) \in Nat /\ DOMAIN script = 1 .. Len(script)
        /\ pc \in DOMAIN script /\ instruction = script[pc]
    BY ScriptLemma DEF IInv, Moved
  <1>3. Follows(script[pc], pc, pc') BY <1>2 DEF Moved
  <1>4. pc' \in Nat \ {0}
    <2>1. CASE pc' = pc + 1 BY <1>2, <2>1
    <2>2. CASE script[pc].op = "skip" /\ pc' = pc + 1 + script[pc].args[3]
      <3>1. script[pc].args[3] \in Nat BY <1>2, <2>2 DEF Disciplined
      <3> QED BY <1>2, <2>2, <3>1
    <2> QED BY <1>3, <2>1, <2>2 DEF Follows
  <1>5. Located'
    BY <1>1, <1>4 DEF IInv, Located, Moved
  <1>6. AdminSound(script, pc', chain'.admin, adminRead')
    BY <1>2, <1>3, <1>4, AdminAdvances DEF IInv, Moved
  <1>7. OwnerSound(script, pc', chain'.rateOwner)
    BY <1>2, <1>3, <1>4, OwnerAdvances DEF IInv, Moved
  <1> QED BY <1>1, <1>5, <1>6, <1>7 DEF IInv, Moved

\* Crashes, errors, the end of a run and deposits of others change neither the
\* position nor the roles.
LEMMA StoppedIInv ==
  IInv /\ (Throw \/ Finish \/ Crash \/ DepositEarly \/ UNCHANGED vars) => IInv'
  <1> SUFFICES ASSUME IInv, Throw \/ Finish \/ Crash \/ DepositEarly \/ UNCHANGED vars
               PROVE  IInv'
    OBVIOUS
  <1>1. /\ UNCHANGED <<program, mode, pc, instruction, adminRead>>
        /\ status' = status \/ status' \in {"failed", "crashed"}
             \/ (status' = "done" /\ instruction.op = "end")
    BY DEF Throw, Finish, Crash, DepositEarly, vars, operation, position, memory
  <1>2. RolesExist' /\ chain'.admin = chain.admin /\ chain'.rateOwner = chain.rateOwner
    <2>1. CASE chain' = chain BY <2>1 DEF IInv, RolesExist
    <2>2. CASE DepositEarly
      <3>1. PICK reserves : chain' = [chain EXCEPT !.reserves = reserves]
        BY <2>2 DEF DepositEarly
      <3> QED BY <3>1, FieldChanged DEF IInv
    <2> QED BY <2>1, <2>2 DEF Throw, Finish, Crash, vars
  <1>3. script' = script BY <1>1 DEF script
  <1>4. Located' BY <1>1, <1>3 DEF IInv, Located
  <1> QED BY <1>1, <1>2, <1>3, <1>4 DEF IInv

\* A new process begins before every instruction of its script.
LEMMA StartIInv ==
  ASSUME IInv, NEW m \in DOMAIN Scripts[program], Start(m)
  PROVE  IInv'
  <1>1. program' = program /\ mode' = m /\ pc' = 1 /\ status' = "running" /\ chain' = chain
    BY DEF Start
  <1>2. script' = Scripts[program][m] BY <1>1 DEF script
  <1>3. Located' BY <1>1, <1>2 DEF Start, IInv, Located
  <1>4. Len(script') \in Nat /\ DOMAIN script' = 1 .. Len(script')
    BY <1>2, RolesAssumption DEF IInv, Located, Disciplined
  <1>5. AdminSound(script', pc', chain'.admin, adminRead') BY <1>1, <1>4 DEF AdminSound
  <1>6. OwnerSound(script', pc', chain'.rateOwner) BY <1>1, <1>4 DEF OwnerSound
  <1> QED BY <1>1, <1>3, <1>5, <1>6 DEF IInv, RolesExist

LEMMA NextIInv == IInv /\ [Next]_vars => IInv'
  <1> SUFFICES ASSUME IInv, [Next]_vars PROVE IInv' OBVIOUS
  <1>1. CASE Step
    <2>1. Moved \/ Throw \/ Finish
      BY <1>1, DeployMoves, SaveMoves, TakeOverMoves, RoleMoves, OtherMoves DEF Step, IInv
    <2> QED BY <2>1, MovedIInv, StoppedIInv
  <1>2. CASE Crash \/ DepositEarly \/ UNCHANGED vars BY <1>2, StoppedIInv
  <1>3. CASE RerunWhole \/ RerunInitialize
    <2>1. {"whole", "initialize"} \subseteq DOMAIN Scripts[program]
      BY ScriptsAssumption DEF IInv, Located
    <2> QED BY <1>3, <2>1, StartIInv DEF RerunWhole, RerunInitialize
  <1>4. CASE RunOther BY <1>4, StartIInv DEF RunOther
  <1> QED BY <1>1, <1>2, <1>3, <1>4 DEF Next

LEMMA InductiveInvariant == Spec => []IInv
  <1> QED BY InitIInv, NextIInv, PTL DEF Spec

-----------------------------------------------------------------------------
(* What is given back *)

\* The script needs the pool admin's role, or gives it to the deployer itself.
NeedsAdmin == \E a \in DOMAIN script : AdminKnown(script, a)

\* At the end of a run the invariant speaks of every position of the script.
LEMMA AtTheEnd ==
  ASSUME IInv, status = "done"
  PROVE  /\ \A k \in DOMAIN script : k < pc
         /\ ~Inside(script, pc, "grant") /\ ~Inside(script, pc, "lendRates")
  <1>1. /\ Disciplined(script) /\ Len(script) \in Nat /\ DOMAIN script = 1 .. Len(script)
        /\ pc > Len(script) /\ pc \in Nat
    BY ScriptLemma DEF IInv, Located
  <1>2. \A j \in DOMAIN script : script[j].op \in {"grant", "lendRates"} => j + 2 <= Len(script)
    BY <1>1 DEF Disciplined, Bracketed
  <1> QED BY <1>1, <1>2 DEF Inside

\* Whatever crashed before and in whatever order the scripts were started: a script
\* that needs the pool admin and ends well leaves the role with the deployer,
\* although it reads the admin long before it lends the role, and a run that
\* crashed in between leaves it with the helper.
THEOREM AdminIsReturned == Spec => [](NeedsAdmin => AdminReturned)
  <1>1. IInv => (NeedsAdmin => AdminReturned)
    <2> SUFFICES ASSUME IInv, NEW a \in DOMAIN script, AdminKnown(script, a), status = "done"
                 PROVE  chain.admin = "signer"
      BY DEF NeedsAdmin, AdminReturned
    <2>1. a < pc /\ ~Inside(script, pc, "grant") BY AtTheEnd
    <2> QED BY <2>1 DEF IInv, AdminSound
  <1> QED BY <1>1, InductiveInvariant, PTL

\* A migration that ends well has given both powers back, the rate oracle too.
THEOREM PowerIsReturned == Spec => [](mode = "whole" => PowerReturned)
  <1>1. IInv => (mode = "whole" => PowerReturned)
    <2> SUFFICES ASSUME IInv, mode = "whole", status = "done"
                 PROVE  chain.admin = "signer" /\ chain.rateOwner # "helper"
      BY DEF PowerReturned, AdminReturned
    <2>1. /\ \A k \in DOMAIN script : k < pc
          /\ ~Inside(script, pc, "grant") /\ ~Inside(script, pc, "lendRates")
      BY AtTheEnd
    <2>2. /\ \E a \in DOMAIN script : AdminKnown(script, a)
          /\ \E f \in DOMAIN script : Unskipped(script, f) /\ Founds(script[f])
      BY RolesAssumption DEF IInv, Located, script
    <2>3. chain.admin = "signer" BY <2>1, <2>2 DEF IInv, AdminSound
    <2>4. chain.rateOwner # "helper" BY <2>1, <2>2 DEF IInv, OwnerSound
    <2> QED BY <2>3, <2>4
  <1> QED BY <1>1, InductiveInvariant, PTL

-----------------------------------------------------------------------------
(* Types *)

\* A contract that some run up to this one deployed, or that was there before.
Recorded(c) == IsContract(c) /\ c.run <= run

\* The rest of the types: what the process remembers, and the vaults' terms.
TInv ==
    /\ TypeOK
    /\ it.run <= run
    /\ adminRead \in {"none", "signer", "helper"}
    /\ {"vaults", "cuts"} \subseteq DOMAIN chain

\* The registered vaults and their terms after an instruction.
VaultsTyped == {"vaults", "cuts"} \subseteq DOMAIN chain /\ chain.vaults \subseteq DOMAIN chain.cuts

LEMMA ContractRecorded ==
  ASSUME NEW kind, NEW r \in 0 .. MaxRuns, NEW at \in Nat
  PROVE  IsContract(Contract(kind, r, at)) /\ Contract(kind, r, at).run = r
  BY DEF IsContract, Contract

LEMMA GivenRecorded ==
  ASSUME run \in 1 .. MaxRuns, NEW key
  PROVE  Recorded(Given(key))
  <1>1. 0 \in 0 .. MaxRuns /\ 0 <= run BY BoundsAssumption
  <1>2. IsContract(Contract(key, 0, 0)) /\ Contract(key, 0, 0).run = 0
    BY <1>1, ContractRecorded
  <1> QED BY <1>1, <1>2 DEF Recorded, Given

\* What an instruction writes to the file and what it leaves in hand are contracts.
LEMMA StepRecords ==
  ASSUME IInv, TInv, Step
  PROVE  /\ run' = run /\ disturbances' = disturbances
         /\ \A name \in DOMAIN db' : Recorded(db'[name])
         /\ Recorded(it')
  <1>1. run \in 1 .. MaxRuns /\ pc \in Nat /\ run \in 0 .. MaxRuns /\ run <= run
    BY BoundsAssumption DEF TInv, TypeOK
  <1>2. Recorded(it) /\ \A name \in DOMAIN db : Recorded(db[name])
    BY DEF TInv, TypeOK, Recorded
  <1>3. \A kind : Recorded(Contract(kind, run, pc)) BY <1>1, ContractRecorded DEF Recorded
  <1>4. run' = run /\ disturbances' = disturbances
    BY DEF Step, Executes, operation, DeployContract, SaveContract, LoadContract,
           TakeOverOrDeploy, Call, SetAddressAsProxy, SetAddress, SetPoolAdmin,
           InitializeImplementation, RegisterVault, SetVaultTerms, ReadInternalAsset,
           SetAssetSources, CopyAssetSource, SetAssetPrice, WatchPairs, BatchInitReserve,
           RegisterAsset, SetVariableYieldDistributor, ReadPoolAdmin, LendPoolAdmin,
           ConfigureReserves, ReturnPoolAdmin, LendRateOracle, ReturnRateOracle,
           AddCollateralAsset, RegisterLevSwapper, Throw, Finish
  <1>5. CASE DeployContract \/ SetAddressAsProxy
    <2>1. db' = db /\ \E kind : it' = Contract(kind, run, pc)
      BY <1>5 DEF DeployContract, SetAddressAsProxy
    <2> QED BY <1>2, <1>3, <1>4, <2>1
  <1>6. CASE SaveContract
    <2>1. it' = it /\ \E name : db' = Put(db, name, it) BY <1>6 DEF SaveContract, memory
    <2> QED BY <1>2, <1>4, <2>1 DEF Put
  <1>7. CASE LoadContract
    <2>1. /\ instruction.op = "load" /\ instruction.needs \subseteq DOMAIN db
          /\ db' = db /\ it' = db[instruction.args[1]]
      BY <1>7 DEF LoadContract, Executes, CanRun
    <2>2. instruction.args[1] \in instruction.needs
      <3>1. Disciplined(script) /\ pc \in DOMAIN script /\ instruction = script[pc]
        BY <2>1, ScriptLemma DEF IInv
      <3> QED BY <2>1, <3>1 DEF Disciplined
    <2> QED BY <1>2, <1>4, <2>1, <2>2
  <1>8. CASE TakeOverOrDeploy
    <2>1. db' = db BY <1>8 DEF TakeOverOrDeploy
    <2>2. \/ it' = it
          \/ \E key : it' = Given(key)
          \/ instruction.args[2] \in DOMAIN db /\ it' = db[instruction.args[2]]
      BY <1>8 DEF TakeOverOrDeploy, Found
    <2> QED BY <1>1, <1>2, <1>4, <2>1, <2>2, GivenRecorded
  <1>9. CASE ~(DeployContract \/ SetAddressAsProxy \/ SaveContract \/ LoadContract
                 \/ TakeOverOrDeploy)
    <2>1. db' = db /\ it' = it
      BY <1>9 DEF Step, Call, OnChain, memory, SetAddress, SetPoolAdmin,
           InitializeImplementation, RegisterVault, SetVaultTerms, ReadInternalAsset,
           SetAssetSources, CopyAssetSource, SetAssetPrice, WatchPairs, BatchInitReserve,
           RegisterAsset, SetVariableYieldDistributor, ReadPoolAdmin, LendPoolAdmin,
           ConfigureReserves, ReturnPoolAdmin, LendRateOracle, ReturnRateOracle,
           AddCollateralAsset, RegisterLevSwapper, Throw, Finish
    <2> QED BY <1>2, <1>4, <2>1
  <1> QED BY <1>5, <1>6, <1>7, <1>8, <1>9

\* Every registered vault has terms.
LEMMA StepKeepsVaults ==
  ASSUME VaultsTyped, Step \/ DepositEarly
  PROVE  VaultsTyped'
  <1>1. ASSUME NEW field, field \notin {"vaults", "cuts"}, NEW value,
               chain' = [chain EXCEPT ![field] = value]
        PROVE  VaultsTyped'
    BY <1>1 DEF VaultsTyped
  <1>2. CASE chain' = chain BY <1>2 DEF VaultsTyped
  <1>3. CASE SaveContract
    <2>1. EmptyChain.vaults = {} /\ {"vaults", "cuts"} \subseteq DOMAIN EmptyChain
      BY DEF EmptyChain
    <2>2. chain' = EmptyChain \/ chain' = chain BY <1>3 DEF SaveContract
    <2> QED BY <1>2, <2>1, <2>2 DEF VaultsTyped
  <1>4. CASE RegisterVault
    <2>1. PICK v, terms : chain' = [chain EXCEPT !.vaults = @ \cup {v}, !.cuts = Put(@, v, terms)]
      BY <1>4 DEF RegisterVault, OnChain
    <2>2. chain'.vaults = chain.vaults \cup {v} /\ chain'.cuts = Put(chain.cuts, v, terms)
      BY <2>1 DEF VaultsTyped
    <2>3. DOMAIN chain'.cuts = DOMAIN chain.cuts \cup {v} BY <2>2 DEF Put
    <2>4. {"vaults", "cuts"} \subseteq DOMAIN chain' BY <2>1 DEF VaultsTyped
    <2> QED BY <2>2, <2>3, <2>4 DEF VaultsTyped
  <1>5. CASE SetVaultTerms
    <2>1. PICK v, key, value : chain' = [chain EXCEPT !.cuts[v][key] = value]
      BY <1>5 DEF SetVaultTerms, OnChain
    <2>2. /\ chain'.vaults = chain.vaults /\ DOMAIN chain'.cuts = DOMAIN chain.cuts
          /\ {"vaults", "cuts"} \subseteq DOMAIN chain'
      BY <2>1 DEF VaultsTyped
    <2> QED BY <2>2 DEF VaultsTyped
  <1>6. CASE DepositEarly
    <2>1. PICK reserves : chain' = [chain EXCEPT !.reserves = reserves] BY <1>6 DEF DepositEarly
    <2> QED BY <1>1, <2>1
  <1>7. CASE \/ DeployContract \/ SetAddressAsProxy \/ SetAddress \/ SetPoolAdmin
             \/ InitializeImplementation \/ ReadInternalAsset
    <2>1. \/ chain' = chain
          \/ \E value : \/ chain' = [chain EXCEPT !.rateOwner = value]
                        \/ chain' = [chain EXCEPT !.slots = value]
                        \/ chain' = [chain EXCEPT !.admin = value]
                        \/ chain' = [chain EXCEPT !.sealed = value]
                        \/ chain' = [chain EXCEPT !.issued = value]
      BY <1>7 DEF DeployContract, SetAddressAsProxy, SetAddress, SetPoolAdmin,
                  InitializeImplementation, ReadInternalAsset, OnChain
    <2> QED BY <1>1, <1>2, <2>1
  <1>8. CASE \/ SetAssetSources \/ CopyAssetSource \/ SetAssetPrice \/ WatchPairs
             \/ BatchInitReserve \/ ConfigureReserves \/ RegisterAsset
             \/ SetVariableYieldDistributor \/ AddCollateralAsset \/ RegisterLevSwapper
    <2>1. \E value : \/ chain' = [chain EXCEPT !.prices = value]
                     \/ chain' = [chain EXCEPT !.reserves = value]
                     \/ chain' = [chain EXCEPT !.rewards = value]
                     \/ chain' = [chain EXCEPT !.variable = value]
                     \/ chain' = [chain EXCEPT !.accepted = value]
                     \/ chain' = [chain EXCEPT !.swappers = value]
      BY <1>8 DEF SetAssetSources, CopyAssetSource, SetAssetPrice, WatchPairs,
                  BatchInitReserve, ConfigureReserves, RegisterAsset,
                  SetVariableYieldDistributor, AddCollateralAsset, RegisterLevSwapper, OnChain
    <2> QED BY <1>1, <2>1
  <1>9. CASE \/ LendPoolAdmin \/ ReturnPoolAdmin \/ LendRateOracle \/ ReturnRateOracle
    <2>1. \E value : \/ chain' = [chain EXCEPT !.admin = value]
                     \/ chain' = [chain EXCEPT !.rateOwner = value]
      BY <1>9 DEF LendPoolAdmin, ReturnPoolAdmin, LendRateOracle, ReturnRateOracle, OnChain
    <2> QED BY <1>1, <2>1
  <1>10. CASE LoadContract \/ TakeOverOrDeploy \/ Call \/ ReadPoolAdmin \/ Throw \/ Finish
    <2>1. chain' = chain
      BY <1>10 DEF LoadContract, TakeOverOrDeploy, Call, ReadPoolAdmin, Throw, Finish, OnChain
    <2> QED BY <1>2, <2>1
  <1> QED BY <1>3, <1>4, <1>5, <1>6, <1>7, <1>8, <1>9, <1>10 DEF Step

LEMMA InitTInv == Init => TInv
  <1> SUFFICES ASSUME Init PROVE TInv OBVIOUS
  <1>1. /\ EmptyChain.admin = "none" /\ EmptyChain.rateOwner = "none"
        /\ EmptyChain.vaults = {} /\ {"vaults", "cuts"} \subseteq DOMAIN EmptyChain
    BY DEF EmptyChain
  <1>2. 1 \in 1 .. MaxRuns /\ 0 \in 0 .. MaxDisturbances BY BoundsAssumption
  <1>3. Recorded(it) /\ it.run = 0
    <2>1. 0 \in 0 .. MaxRuns BY BoundsAssumption
    <2>2. IsContract(Zero) /\ Zero.run = 0 BY <2>1, ContractRecorded DEF Zero, Given
    <2> QED BY <2>2 DEF Init, Recorded
  <1>4. mode \in STRING BY ScriptsAssumption DEF Init
  <1>5. DOMAIN db = {} BY DEF Init
  <1> QED BY <1>1, <1>2, <1>3, <1>4, <1>5 DEF Init, TInv, TypeOK, Statuses, Recorded

LEMMA NextTInv == IInv /\ IInv' /\ TInv /\ [Next]_vars => TInv'
  <1> SUFFICES ASSUME IInv, IInv', TInv, [Next]_vars PROVE TInv' OBVIOUS
  <1>1. /\ program' \in Programs /\ mode' \in DOMAIN Scripts[program']
        /\ pc' \in Nat \ {0} /\ instruction' = InstructionAt(Scripts[program'][mode'], pc')
    BY DEF IInv, Located, script
  <1>2. mode' \in STRING BY <1>1, ScriptsAssumption
  <1>3. VaultsTyped BY DEF TInv, TypeOK, VaultsTyped
  <1>4. SUFFICES /\ run' \in 1 .. MaxRuns /\ status' \in Statuses
                 /\ disturbances' \in 0 .. MaxDisturbances
                 /\ \A name \in DOMAIN db' : IsContract(db'[name]) /\ db'[name].run <= run'
                 /\ IsContract(it') /\ it'.run <= run'
                 /\ chain'.admin \in {"none", "signer", "helper"}
                 /\ chain'.rateOwner \in {"none", "signer", "helper"}
                 /\ adminRead' \in {"none", "signer", "helper"}
                 /\ VaultsTyped'
    BY <1>1, <1>2 DEF TInv, TypeOK, VaultsTyped
  <1>5. CASE Step
    <2>1. /\ run' = run /\ disturbances' = disturbances
          /\ \A name \in DOMAIN db' : Recorded(db'[name])
          /\ Recorded(it')
      BY <1>5, StepRecords
    <2>2. VaultsTyped' BY <1>3, <1>5, StepKeepsVaults
    <2>3. Moved \/ Throw \/ Finish
      BY <1>5, DeployMoves, SaveMoves, TakeOverMoves, RoleMoves, OtherMoves DEF Step, IInv
    <2>4. /\ chain'.admin \in {"none", "signer", "helper"}
          /\ chain'.rateOwner \in {"none", "signer", "helper"}
          /\ adminRead' \in {"none", "signer", "helper"}
          /\ status' \in Statuses
      <3>1. CASE Moved
        <4>1. /\ chain'.admin \in {"none", "signer", "helper", chain.admin, adminRead}
              /\ adminRead' \in {chain.admin, adminRead}
          BY <3>1 DEF Moved, AdminMove
        <4>2. chain'.rateOwner \in {"none", "signer", "helper", chain.rateOwner}
          BY <3>1 DEF Moved, OwnerMove
        <4>3. status' = status BY <3>1 DEF Moved
        <4> QED BY <4>1, <4>2, <4>3 DEF TInv, TypeOK
      <3>2. CASE Throw \/ Finish
        BY <3>2 DEF Throw, Finish, memory, TInv, TypeOK, Statuses
      <3> QED BY <2>3, <3>1, <3>2
    <2> QED BY <2>1, <2>2, <2>4 DEF TInv, TypeOK, Recorded
  <1>6. CASE Crash
    BY <1>3, <1>6, BoundsAssumption
       DEF Crash, position, memory, TInv, TypeOK, Statuses, VaultsTyped
  <1>7. CASE DepositEarly
    <2>1. VaultsTyped' BY <1>3, <1>7, StepKeepsVaults
    <2>2. chain'.admin = chain.admin /\ chain'.rateOwner = chain.rateOwner
      <3>1. PICK reserves : chain' = [chain EXCEPT !.reserves = reserves] BY <1>7 DEF DepositEarly
      <3> QED BY <3>1, FieldChanged DEF IInv
    <2> QED BY <1>7, <2>1, <2>2, BoundsAssumption
            DEF DepositEarly, position, memory, TInv, TypeOK
  <1>8. CASE RerunWhole \/ RerunInitialize \/ RunOther
    <2>1. PICK m : Start(m) BY <1>8 DEF RerunWhole, RerunInitialize, RunOther
    <2>2. /\ run' = run + 1 /\ run' \in 1 .. MaxRuns /\ status' = "running"
          /\ it' = Zero /\ adminRead' = "none"
          /\ UNCHANGED <<disturbances, db, chain>>
      BY <2>1, BoundsAssumption DEF Start, TInv, TypeOK
    <2>3. IsContract(Zero) /\ Zero.run = 0
      <3>1. 0 \in 0 .. MaxRuns BY BoundsAssumption
      <3> QED BY <3>1, ContractRecorded DEF Zero, Given
    <2>4. \A name \in DOMAIN db' : IsContract(db'[name]) /\ db'[name].run <= run'
      <3>1. run \in Nat BY DEF TInv, TypeOK
      <3>2. \A name \in DOMAIN db : IsContract(db[name]) /\ db[name].run <= run
        BY DEF TInv, TypeOK
      <3>3. \A name \in DOMAIN db : db[name].run \in Nat
        BY <3>2, BoundsAssumption DEF IsContract
      <3> QED BY <2>2, <3>1, <3>2, <3>3
    <2>5. VaultsTyped' BY <1>3, <2>2 DEF VaultsTyped
    <2>6. 0 <= run' BY <2>2
    <2> QED BY <2>2, <2>3, <2>4, <2>5, <2>6 DEF TInv, TypeOK, Statuses
  <1>9. CASE UNCHANGED vars
    BY <1>3, <1>9 DEF vars, TInv, TypeOK, VaultsTyped
  <1> QED BY <1>5, <1>6, <1>7, <1>8, <1>9 DEF Next

\* Every name in the file leads to a contract that some run up to this one deployed,
\* the process holds such a contract whatever a load or a skip gave it, the roles
\* are held by accounts that exist, and every registered vault has its terms.
THEOREM DeploymentTypes == Spec => []TypeOK
  <1>1. IInv /\ IInv' /\ TInv /\ [Next]_vars => TInv' BY NextTInv
  <1>2. TInv => TypeOK BY DEF TInv
  <1> QED BY <1>1, <1>2, InitTInv, InductiveInvariant, PTL DEF Spec
=============================================================================
