---------------------------- MODULE ConfigResolve ----------------------------
(***************************************************************************)
(* getConfig() of src/config.ts for the options that decide which heights  *)
(* a process indexes: FROM, TO, RESUME, FIRST_BLOCK and FOLLOW, each given *)
(* on the command line, in the environment, in the .env file, or not.      *)
(*                                                                         *)
(* A source gives an option an integer, a BOOLEAN, or one of the words     *)
(* below.  Quotes, comments and spelling of booleans are left out: a value *)
(* is what remains of the text.                                            *)
(***************************************************************************)
EXTENDS Integers

CONSTANTS
  Unset,     \* the source does not mention the option
  Blank,     \* FROM= : the empty string
  Flag,      \* --from : an option without a value (parseArgv makes it true)
  Latest,    \* TO=latest
  Rejected   \* stands for the error a parser throws

NotSet == -1   \* undefined, in the resolved configuration
Options == {"from", "to", "resume", "firstBlock", "follow"}

(* loadDotEnvIfPresent: the file fills in what the environment lacks; an   *)
(* empty variable of the environment is not lacking.                       *)
loadDotEnvIfPresent(env, file) ==
  [o \in Options |-> IF env[o] = Unset THEN file[o] ELSE env[o]]

Given(arg, fromEnv) == IF arg = Unset THEN fromEnv ELSE arg   \* arg ?? env
IsString(arg) == arg \notin {Unset, Flag}
Truthy(v) == v \notin {Unset, Blank}

asPositiveInt(v) == IF v \in Nat THEN v ELSE Rejected

asBool(v) ==
  IF v \in {Unset, Blank} THEN FALSE
  ELSE IF v = Flag THEN TRUE
  ELSE IF v \in BOOLEAN THEN v ELSE Rejected

(* Number(true) is 1; what is no number is left to the schema.             *)
Number(v) == IF v = Flag THEN 1 ELSE v

Ranged(arg, fromEnv) ==
  IF IsString(arg) THEN asPositiveInt(arg)
  ELSE IF Truthy(fromEnv) THEN asPositiveInt(fromEnv) ELSE NotSet

(* "latest" in either source wins over a number in the other.              *)
wantsLatest(arg, fromEnv) == Latest \in {arg, fromEnv}

Resolved(args, env) ==
  [from   |-> Ranged(args.from, env.from),
   to     |-> IF wantsLatest(args.to, env.to) THEN NotSet ELSE Ranged(args.to, env.to),
   resume |-> asBool(Given(args.resume, env.resume)),
   firstBlock |-> IF Truthy(args.firstBlock) THEN Number(args.firstBlock)
                  ELSE IF Truthy(env.firstBlock) THEN env.firstBlock ELSE 5200792,
   follow |-> asBool(Given(args.follow, env.follow))]

(* What the parsers and the schema let through; else getConfig throws and  *)
(* main() exits.  Zero passes the parser of FROM and TO, not the schema.   *)
Positive(v) == v \in Nat /\ v # 0
validateConfig(c) ==
  /\ Positive(c.from) \/ c.from = NotSet
  /\ Positive(c.to) \/ c.to = NotSet
  /\ Positive(c.firstBlock)
  /\ c.resume \in BOOLEAN /\ c.follow \in BOOLEAN
  /\ c.from # NotSet /\ c.to # NotSet => c.to >= c.from

getConfig(args, env, file) == Resolved(args, loadDotEnvIfPresent(env, file))
==============================================================================
