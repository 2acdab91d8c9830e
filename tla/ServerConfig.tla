----------------------------- MODULE ServerConfig -----------------------------
(***************************************************************************)
(* main and parse_server_config: the command line is read one argument after *)
(* another, some of which take the next one as their value, and the          *)
(* configuration that results is handed to run_server, which tests it again. *)
(* The texts of numbers are known by the number from_chars reads in them.    *)
(***************************************************************************)
EXTENDS Integers, Sequences

CONSTANTS Words,        \* what an argument may be
          MaxArgs,      \* how many there are at most
          NumberOf,     \* the number a word stands for, when it is a number to its end
          IntMax,       \* numeric_limits<int>::max()
          U64Max        \* numeric_limits<uint64_t>::max()

Flags == {"--help", "--benchmark"}
OptionsWithValue == {"--port", "--workers", "--campaign-data-path", "--benchmark-json",
                     "--benchmark-requests", "--benchmark-duration-ms"}
Options == Flags \cup OptionsWithValue

MaxPort == 65535    \* what a uint16_t holds

ASSUME ServerConfigAssumption ==
    /\ MaxArgs \in Nat
    /\ DOMAIN NumberOf \subseteq Words \ Options
    /\ \A word \in DOMAIN NumberOf : NumberOf[word] \in Int
    /\ IntMax \in Nat /\ IntMax >= MaxPort
    /\ U64Max \in Nat

VARIABLES
    args,       \* argv, from argv[1] on
    index,      \* how many of them were read
    out,        \* the ServerConfig
    status,     \* "parsing", or what parse_server_config returned
    process     \* "main", "run_server", "loading", "started", or the exit code of the process

vars == <<args, index, out, status, process>>

Default == [port |-> 8080, workers |-> 1, benchmark |-> FALSE, benchmark_requests |-> 0,
            benchmark_duration_ms |-> 0, benchmark_json_path |-> "empty",
            campaign_data_path |-> "default_campaign_data_path"]

-----------------------------------------------------------------------------
(***************************************************************************)
(* The values.  from_chars fails on a number that does not fit.             *)
(***************************************************************************)
IsInt(text) == text \in DOMAIN NumberOf /\ NumberOf[text] \in (-IntMax - 1) .. IntMax
IsU64(text) == text \in DOMAIN NumberOf /\ NumberOf[text] \in 0 .. U64Max

IsPort(text) == IsInt(text) /\ NumberOf[text] > 0 /\ NumberOf[text] <= MaxPort

\* A slip: only a negative count is refused.
NotNegative(count) == count >= 0

ValidWorkers(count) == count > 0

-----------------------------------------------------------------------------
Parsing == status = "parsing" /\ index < Len(args)
Arg == args[index + 1]
HasValue(option) == Parsing /\ Arg = option /\ index + 1 < Len(args)
Value == args[index + 2]

Refuse == status' = "kInvalidArgument"

ParseHelp ==
    /\ Parsing /\ Arg = "--help"
    /\ status' = "kHelpRequested"
    /\ UNCHANGED <<args, index, out, process>>

ParseBenchmark ==
    /\ Parsing /\ Arg = "--benchmark"
    /\ index' = index + 1
    /\ out' = [out EXCEPT !.benchmark = TRUE]
    /\ UNCHANGED <<args, status, process>>

ParsePort ==
    /\ HasValue("--port")
    /\ index' = index + 2
    /\ IF IsPort(Value)
       THEN out' = [out EXCEPT !.port = NumberOf[Value]] /\ UNCHANGED status
       ELSE Refuse /\ UNCHANGED out
    /\ UNCHANGED <<args, process>>

\* The number is in out.workers before it is found to be none.
ParseWorkers ==
    /\ HasValue("--workers")
    /\ index' = index + 2
    /\ IF IsInt(Value)
       THEN /\ out' = [out EXCEPT !.workers = NumberOf[Value]]
            /\ IF ValidWorkers(NumberOf[Value]) THEN UNCHANGED status ELSE Refuse
       ELSE Refuse /\ UNCHANGED out
    /\ UNCHANGED <<args, process>>

ParseCampaignDataPath ==
    /\ HasValue("--campaign-data-path")
    /\ index' = index + 2
    /\ out' = [out EXCEPT !.campaign_data_path = Value]
    /\ UNCHANGED <<args, status, process>>

\* A slip: the path is taken for the next option.
ParsePathTwice ==
    /\ HasValue("--benchmark-json")
    /\ index' = index + 1
    /\ out' = [out EXCEPT !.benchmark = TRUE, !.benchmark_json_path = Value]
    /\ UNCHANGED <<args, status, process>>

ParseBenchmarkJson ==
    /\ HasValue("--benchmark-json")
    /\ index' = index + 2
    /\ out' = [out EXCEPT !.benchmark = TRUE, !.benchmark_json_path = Value]
    /\ UNCHANGED <<args, status, process>>

ParseBenchmarkRequests ==
    /\ HasValue("--benchmark-requests")
    /\ index' = index + 2
    /\ IF IsU64(Value)
       THEN IF NumberOf[Value] # 0
            THEN /\ out' = [out EXCEPT !.benchmark = TRUE, !.benchmark_requests = NumberOf[Value]]
                 /\ UNCHANGED status
            ELSE Refuse /\ out' = [out EXCEPT !.benchmark_requests = 0]
       ELSE Refuse /\ UNCHANGED out
    /\ UNCHANGED <<args, process>>

ParseBenchmarkDurationMs ==
    /\ HasValue("--benchmark-duration-ms")
    /\ index' = index + 2
    /\ IF IsU64(Value)
       THEN IF NumberOf[Value] # 0
            THEN /\ out' = [out EXCEPT !.benchmark = TRUE, !.benchmark_duration_ms = NumberOf[Value]]
                 /\ UNCHANGED status
            ELSE Refuse /\ out' = [out EXCEPT !.benchmark_duration_ms = 0]
       ELSE Refuse /\ UNCHANGED out
    /\ UNCHANGED <<args, process>>

\* An option whose value is not there, or a word that is no option.
RefuseArgument ==
    /\ Parsing
    /\ Arg \in OptionsWithValue => index + 1 = Len(args)
    /\ Arg \notin Flags
    /\ Refuse
    /\ UNCHANGED <<args, index, out, process>>

EndOfArguments ==
    /\ status = "parsing" /\ index = Len(args)
    /\ status' = "kOk"
    /\ UNCHANGED <<args, index, out, process>>

-----------------------------------------------------------------------------
(***************************************************************************)
(* main, and the tests run_server begins with.                             *)
(***************************************************************************)
Dispatch ==
    /\ process = "main" /\ status # "parsing"
    /\ process' = CASE status = "kHelpRequested"   -> "exit_0"
                    [] status = "kInvalidArgument" -> "exit_1"
                    [] status = "kOk"              -> "run_server"
    /\ UNCHANGED <<args, index, out, status>>

TestConfig ==
    /\ process = "run_server"
    /\ process' = IF out.port = 0 \/ out.workers <= 0 THEN "exit_1" ELSE "loading"
    /\ UNCHANGED <<args, index, out, status>>

\* load_campaign_store_snapshot finds a snapshot, or nothing.
LoadCampaigns ==
    /\ process = "loading"
    /\ process' \in {"started", "exit_1"}
    /\ UNCHANGED <<args, index, out, status>>

Init ==
    /\ args \in UNION {[1 .. n -> Words] : n \in 0 .. MaxArgs}
    /\ index = 0
    /\ out = Default
    /\ status = "parsing"
    /\ process = "main"

Parse ==
    \/ ParseHelp \/ ParseBenchmark \/ ParsePort \/ ParseWorkers
    \/ ParseCampaignDataPath \/ ParseBenchmarkJson
    \/ ParseBenchmarkRequests \/ ParseBenchmarkDurationMs
    \/ RefuseArgument \/ EndOfArguments

Next == Parse \/ Dispatch \/ TestConfig \/ LoadCampaigns

Spec == Init /\ [][Next]_vars

-----------------------------------------------------------------------------
(***************************************************************************)
(* What must hold.                                                         *)
(***************************************************************************)
\* The type of every variable; the port fits its 16 bits.
TypeOK ==
    /\ args \in Seq(Words)
    /\ index \in 0 .. Len(args)
    /\ out \in [port : 1 .. MaxPort, workers : (-IntMax - 1) .. IntMax, benchmark : BOOLEAN,
                benchmark_requests : 0 .. U64Max, benchmark_duration_ms : 0 .. U64Max,
                benchmark_json_path : Words \cup {"empty"},
                campaign_data_path : Words \cup {Default.campaign_data_path}]
    /\ status \in {"parsing", "kOk", "kHelpRequested", "kInvalidArgument"}
    /\ process \in {"main", "run_server", "loading", "started", "exit_0", "exit_1"}
    /\ process # "main" => status # "parsing"

\* A configuration parse_server_config accepts passes the tests of run_server: the
\* engine is never started, nor ended, for a value of which the user was not told; and the
\* refused workers count that out may hold never gets there.
AcceptedConfigRuns ==
    /\ process \in {"run_server", "loading", "started"} =>
          /\ status = "kOk" /\ index = Len(args)
          /\ out.port # 0 /\ out.workers > 0
          /\ ~out.benchmark => /\ out.benchmark_requests = 0 /\ out.benchmark_duration_ms = 0
                               /\ out.benchmark_json_path = "empty"
    /\ process = "exit_0" => status = "kHelpRequested"

\* The positions of the options: an argument is one unless the one before is an option
\* that takes it as its value, whatever it looks like.
AreOptions(positions) ==
    \A p \in 1 .. Len(args) :
        p \in positions <=> ~(p - 1 \in positions /\ args[p - 1] \in OptionsWithValue)

\* The options that were read.
Read(positions, option) == {p \in positions : p <= index /\ args[p] = option}

\* The value given with the last of an option's occurrences, in a set; {} if there was none.
LastValue(positions, option) ==
    LET read == Read(positions, option)
    IN {args[p + 1] : p \in {r \in read : \A q \in read : q <= r}}

IsText(setting, given, default) ==
    IF given = {} THEN setting = default ELSE \E text \in given : setting = text

IsNumber(setting, given, default) ==
    IF given = {} THEN setting = default ELSE \E text \in given : setting = NumberOf[text]

\* Each setting is from the last option that sets it, and one benchmark option is enough
\* to turn the benchmark on.
SettingsAre(positions) ==
    /\ IsNumber(out.port, LastValue(positions, "--port"), Default.port)
    /\ IsNumber(out.workers, LastValue(positions, "--workers"), Default.workers)
    /\ IsText(out.campaign_data_path, LastValue(positions, "--campaign-data-path"),
              Default.campaign_data_path)
    /\ IsText(out.benchmark_json_path, LastValue(positions, "--benchmark-json"), "empty")
    /\ IsNumber(out.benchmark_requests, LastValue(positions, "--benchmark-requests"), 0)
    /\ IsNumber(out.benchmark_duration_ms, LastValue(positions, "--benchmark-duration-ms"), 0)
    /\ out.benchmark <=>
         \E option \in {"--benchmark", "--benchmark-json", "--benchmark-requests",
                        "--benchmark-duration-ms"} : Read(positions, option) # {}

\* Each argument is read as an option or as the value of one, never as both and never as
\* neither, and no word that is no option is passed over; the settings are what the last
\* options say.
LastOptionWins ==
    status \in {"parsing", "kOk"} =>
        \A positions \in SUBSET (1 .. Len(args)) :
            AreOptions(positions) =>
                /\ index = Len(args) \/ index + 1 \in positions
                /\ \A p \in positions : p <= index => args[p] \in Options \ {"--help"}
                /\ SettingsAre(positions)
=============================================================================
