-------------------------- MODULE ServerConfigProofs --------------------------
(***************************************************************************)
(* Proofs about ServerConfig, for any words, numbers and widths.            *)
(***************************************************************************)
EXTENDS ServerConfig, TLAPS

\* What the process needs of a configuration, at any point of the parsing: only a refused
\* one has no workers.
SoundSettings ==
    /\ status \in {"parsing", "kOk"} => out.workers > 0
    /\ ~out.benchmark /\ status \in {"parsing", "kOk"} =>
          /\ out.benchmark_requests = 0 /\ out.benchmark_duration_ms = 0
          /\ out.benchmark_json_path = "empty"
    /\ status = "kOk" => index = Len(args)

\* The inductive invariant.
ConfigInv == TypeOK /\ SoundSettings /\ AcceptedConfigRuns /\ LastOptionWins

-----------------------------------------------------------------------------
(***************************************************************************)
(* Reading an option moves the last value of that option, and no other's.   *)
(***************************************************************************)
LEMMA ReadOption ==
    ASSUME NEW positions \in SUBSET (1 .. Len(args)), AreOptions(positions), args \in Seq(Words),
           index \in 0 .. Len(args), index + 1 \in positions, args' = args,
           \/ index' = index + 1 /\ Arg \notin OptionsWithValue
           \/ index' = index + 2 /\ Arg \in OptionsWithValue /\ index + 1 < Len(args),
           NEW option
    PROVE  /\ index' = Len(args) \/ index' + 1 \in positions
           /\ \A p \in positions : p <= index' <=> p <= index \/ p = index + 1
           /\ Read(positions, option)' =
                IF option = Arg THEN Read(positions, option) \cup {index + 1}
                ELSE Read(positions, option)
<1>1. /\ index' = Len(args) \/ index' + 1 \in positions
      /\ \A p \in positions : p <= index' <=> p <= index \/ p = index + 1
  <2>1. CASE index' = index + 1 /\ Arg \notin OptionsWithValue
    BY <2>1 DEF AreOptions, Arg
  <2>2. CASE index' = index + 2 /\ Arg \in OptionsWithValue /\ index + 1 < Len(args)
    <3>1. index + 2 \notin positions
      BY <2>2 DEF AreOptions, Arg
    <3> QED
      BY <2>2, <3>1 DEF AreOptions
  <2> QED
    BY <2>1, <2>2
<1>2. Read(positions, option)' = {p \in positions : (p <= index \/ p = index + 1) /\ args[p] = option}
  BY <1>1 DEF Read
<1> QED
  BY <1>1, <1>2 DEF Read, Arg

LEMMA LastValueRead ==
    ASSUME NEW positions \in SUBSET (1 .. Len(args)), AreOptions(positions), args \in Seq(Words),
           index \in 0 .. Len(args), index + 1 \in positions, args' = args,
           \/ index' = index + 1 /\ Arg \notin OptionsWithValue
           \/ index' = index + 2 /\ Arg \in OptionsWithValue /\ index + 1 < Len(args),
           NEW option
    PROVE  LastValue(positions, option)' =
             IF option = Arg THEN {Value} ELSE LastValue(positions, option)
<1>1. CASE option # Arg
  <2>1. Read(positions, option)' = Read(positions, option)
    BY <1>1, ReadOption
  <2> QED
    BY <1>1, <2>1 DEF LastValue
<1>2. CASE option = Arg
  <2> DEFINE before == Read(positions, option)
             read == before \cup {index + 1}
  <2>1. Read(positions, option)' = read
    BY <1>2, ReadOption
  <2>2. \A q \in before : q \in Int /\ q < index + 1
    BY DEF Read
  <2> HIDE DEF before
  <2>3. {r \in read : \A q \in read : q <= r} = {index + 1}
    <3>1. \A q \in read : q \in Int /\ q <= index + 1
      BY <2>2
    <3>2. index + 1 \in read
      OBVIOUS
    <3> HIDE DEF read
    <3>3. ASSUME NEW r \in read, \A q \in read : q <= r PROVE r = index + 1
      <4>1. r \in Int /\ r <= index + 1 /\ index + 1 <= r /\ index + 1 \in Int
        BY <3>1, <3>2, <3>3
      <4> QED
        BY <4>1
    <3> QED
      BY <3>1, <3>2, <3>3
  <2> HIDE DEF read
  <2>4. LastValue(positions, option)' = {args[p + 1] : p \in {index + 1}}
    BY <2>1, <2>3 DEF LastValue
  <2>5. Value = args[(index + 1) + 1]
    BY DEF Value
  <2> QED
    BY <1>2, <2>4, <2>5
<1> QED
  BY <1>1, <1>2

(***************************************************************************)
(* An argument that is read takes the settings to what its option says.     *)
(***************************************************************************)
LEMMA SettingsRead ==
    ASSUME TypeOK, LastOptionWins, Parsing, status' = "parsing", args' = args,
           \/ index' = index + 1 /\ Arg \notin OptionsWithValue
           \/ index' = index + 2 /\ Arg \in OptionsWithValue /\ index + 1 < Len(args),
           Arg \in Options \ {"--help"},
           out'.port = IF Arg = "--port" THEN NumberOf[Value] ELSE out.port,
           out'.workers = IF Arg = "--workers" THEN NumberOf[Value] ELSE out.workers,
           out'.campaign_data_path =
               IF Arg = "--campaign-data-path" THEN Value ELSE out.campaign_data_path,
           out'.benchmark_json_path =
               IF Arg = "--benchmark-json" THEN Value ELSE out.benchmark_json_path,
           out'.benchmark_requests =
               IF Arg = "--benchmark-requests" THEN NumberOf[Value] ELSE out.benchmark_requests,
           out'.benchmark_duration_ms =
               IF Arg = "--benchmark-duration-ms" THEN NumberOf[Value]
               ELSE out.benchmark_duration_ms,
           out'.benchmark <=>
               \/ out.benchmark
               \/ Arg \in {"--benchmark", "--benchmark-json", "--benchmark-requests",
                          "--benchmark-duration-ms"}
    PROVE  LastOptionWins'
<1> SUFFICES ASSUME NEW positions \in SUBSET (1 .. Len(args)), AreOptions(positions)
             PROVE  /\ index' = Len(args) \/ index' + 1 \in positions
                    /\ \A p \in positions : p <= index' => args[p] \in Options \ {"--help"}
                    /\ SettingsAre(positions)'
  BY DEF LastOptionWins, AreOptions
<1>1. /\ index \in 0 .. Len(args) /\ index < Len(args)
      /\ index + 1 \in positions
      /\ \A p \in positions : p <= index => args[p] \in Options \ {"--help"}
      /\ SettingsAre(positions)
  BY DEF LastOptionWins, Parsing, TypeOK
<1>2. args \in Seq(Words)
  BY DEF TypeOK
<1>3. /\ index' = Len(args) \/ index' + 1 \in positions
      /\ \A p \in positions : p <= index' <=> p <= index \/ p = index + 1
      /\ \A option : Read(positions, option)' =
            IF option = Arg THEN Read(positions, option) \cup {index + 1}
            ELSE Read(positions, option)
  BY <1>1, <1>2, ReadOption
<1>4. \A option : LastValue(positions, option)' =
            IF option = Arg THEN {Value} ELSE LastValue(positions, option)
  BY <1>1, <1>2, LastValueRead
<1>5. \A p \in positions : p <= index' => args[p] \in Options \ {"--help"}
  BY <1>1, <1>3 DEF Arg
<1>6. SettingsAre(positions)'
  <2>1. IsNumber(out'.port, LastValue(positions, "--port")', Default.port)
    BY <1>1, <1>4 DEF SettingsAre, IsNumber
  <2>2. IsNumber(out'.workers, LastValue(positions, "--workers")', Default.workers)
    BY <1>1, <1>4 DEF SettingsAre, IsNumber
  <2>3. IsText(out'.campaign_data_path, LastValue(positions, "--campaign-data-path")',
               Default.campaign_data_path)
    BY <1>1, <1>4 DEF SettingsAre, IsText
  <2>4. IsText(out'.benchmark_json_path, LastValue(positions, "--benchmark-json")', "empty")
    BY <1>1, <1>4 DEF SettingsAre, IsText
  <2>5. IsNumber(out'.benchmark_requests, LastValue(positions, "--benchmark-requests")', 0)
    BY <1>1, <1>4 DEF SettingsAre, IsNumber
  <2>6. IsNumber(out'.benchmark_duration_ms,
                 LastValue(positions, "--benchmark-duration-ms")', 0)
    BY <1>1, <1>4 DEF SettingsAre, IsNumber
  <2>7. out'.benchmark <=>
          \E option \in {"--benchmark", "--benchmark-json", "--benchmark-requests",
                         "--benchmark-duration-ms"} : Read(positions, option)' # {}
    BY <1>1, <1>3 DEF SettingsAre
  <2> QED
    BY <2>1, <2>2, <2>3, <2>4, <2>5, <2>6, <2>7 DEF SettingsAre, IsNumber, IsText
<1> QED
  BY <1>3, <1>5, <1>6

-----------------------------------------------------------------------------
(***************************************************************************)
(* The steps of the parsing.                                               *)
(***************************************************************************)
\* What a step that leaves the process in main keeps of the invariant.
Sound == SoundSettings /\ AcceptedConfigRuns

LEMMA Ports == MaxPort \in Nat /\ MaxPort >= 8080
BY DEF MaxPort

LEMMA ParsingInMain ==
    ASSUME TypeOK, status = "parsing"
    PROVE  process = "main"
BY DEF TypeOK

LEMMA RefusedSound ==
    ASSUME TypeOK, status = "parsing", status' = "kInvalidArgument", UNCHANGED process
    PROVE  Sound' /\ LastOptionWins'
BY ParsingInMain DEF Sound, SoundSettings, AcceptedConfigRuns, LastOptionWins

LEMMA InitInvariant == Init => ConfigInv
<1> SUFFICES ASSUME Init PROVE ConfigInv
  OBVIOUS
<1> USE ServerConfigAssumption
<1>1. args \in Seq(Words)
  <2>1. PICK n \in 0 .. MaxArgs : args \in [1 .. n -> Words]
    BY DEF Init
  <2> QED
    BY <2>1
<1>2. TypeOK
  BY <1>1, Ports DEF Init, TypeOK, Default
<1>3. SoundSettings /\ AcceptedConfigRuns
  BY DEF Init, SoundSettings, AcceptedConfigRuns, Default
<1>4. LastOptionWins
  <2> SUFFICES ASSUME NEW positions \in SUBSET (1 .. Len(args)), AreOptions(positions)
               PROVE  /\ index = Len(args) \/ index + 1 \in positions
                      /\ \A p \in positions : p <= index => args[p] \in Options \ {"--help"}
                      /\ SettingsAre(positions)
    BY DEF LastOptionWins
  <2>1. Len(args) \in Nat /\ index = 0
    BY <1>1 DEF Init
  <2>2. positions \subseteq Int /\ \A p \in positions : ~(p <= index)
    BY <2>1
  <2>3. index = Len(args) \/ index + 1 \in positions
    <3>1. 0 \notin positions
      BY <2>1
    <3> QED
      BY <2>1, <3>1 DEF AreOptions
  <2>4. \A option : Read(positions, option) = {}
    <3>1. ASSUME NEW option PROVE Read(positions, option) = {}
      BY <2>2 DEF Read
    <3> QED
      BY <3>1
  <2>5. \A option : LastValue(positions, option) = {}
    BY <2>4 DEF LastValue
  <2>6. SettingsAre(positions)
    BY <2>4, <2>5 DEF SettingsAre, IsNumber, IsText, Init, Default
  <2> QED
    BY <2>2, <2>3, <2>6
<1> QED
  BY <1>2, <1>3, <1>4 DEF ConfigInv

-----------------------------------------------------------------------------
\* What an argument that is read and not refused keeps.
LEMMA KeptSound ==
    ASSUME TypeOK, TypeOK', SoundSettings, status = "parsing", UNCHANGED <<status, process>>,
           out'.workers > 0,
           out'.benchmark = TRUE \/
                            /\ out'.benchmark_requests = out.benchmark_requests
                            /\ out'.benchmark_duration_ms = out.benchmark_duration_ms
                            /\ out'.benchmark_json_path = out.benchmark_json_path
                            /\ out'.benchmark = out.benchmark
    PROVE  Sound'
BY ParsingInMain DEF Sound, SoundSettings, AcceptedConfigRuns

\* A step that reads no argument.
LEMMA LastOptionKept ==
    ASSUME LastOptionWins, UNCHANGED <<args, index, out>>,
           status' \in {"parsing", "kOk"} => status \in {"parsing", "kOk"}
    PROVE  LastOptionWins'
<1>1. args' = args /\ index' = index /\ out' = out
  OBVIOUS
<1> SUFFICES ASSUME status \in {"parsing", "kOk"},
                    NEW positions \in SUBSET (1 .. Len(args)), AreOptions(positions)
             PROVE  /\ index' = Len(args) \/ index' + 1 \in positions
                    /\ \A p \in positions : p <= index' => args[p] \in Options \ {"--help"}
                    /\ SettingsAre(positions)'
  <2>1. \A positions : AreOptions(positions)' <=> AreOptions(positions)
    BY <1>1 DEF AreOptions
  <2> QED
    BY <1>1, <2>1 DEF LastOptionWins
<1>2. SettingsAre(positions)' <=> SettingsAre(positions)
  BY <1>1 DEF SettingsAre, IsNumber, IsText, LastValue, Read
<1> QED
  BY <1>1, <1>2 DEF LastOptionWins

\* What out is typed as.
Configs == [port : 1 .. MaxPort, workers : (-IntMax - 1) .. IntMax, benchmark : BOOLEAN,
            benchmark_requests : 0 .. U64Max, benchmark_duration_ms : 0 .. U64Max,
            benchmark_json_path : Words \cup {"empty"},
            campaign_data_path : Words \cup {Default.campaign_data_path}]

\* An option of the benchmark turns it on.
LEMMA BenchmarkOn ==
    ASSUME out \in Configs, out' = [out EXCEPT !.benchmark = TRUE]
    PROVE  out' \in Configs /\ out'.benchmark = TRUE
BY Zenon DEF Configs

LEMMA JsonBenchmarkOn ==
    ASSUME Value \in Words, out \in Configs,
           out' = [out EXCEPT !.benchmark = TRUE, !.benchmark_json_path = Value]
    PROVE  out' \in Configs /\ out'.benchmark = TRUE
BY Zenon DEF Configs

LEMMA RequestsBenchmarkOn ==
    ASSUME NumberOf[Value] \in 0 .. U64Max, out \in Configs,
           out' = [out EXCEPT !.benchmark = TRUE, !.benchmark_requests = NumberOf[Value]]
    PROVE  out' \in Configs /\ out'.benchmark = TRUE
BY Zenon DEF Configs

LEMMA DurationBenchmarkOn ==
    ASSUME NumberOf[Value] \in 0 .. U64Max, out \in Configs,
           out' = [out EXCEPT !.benchmark = TRUE, !.benchmark_duration_ms = NumberOf[Value]]
    PROVE  out' \in Configs /\ out'.benchmark = TRUE
BY Zenon DEF Configs

LEMMA ReadTyped ==
    ASSUME TypeOK, Parsing, UNCHANGED <<args, process>>,
           status' \in {"parsing", "kInvalidArgument"},
           index' = index + 1 \/ (index' = index + 2 /\ index + 1 < Len(args)),
           out' \in Configs
    PROVE  TypeOK'
<1>1. out' \in Configs /\ args' \in Seq(Words)
  BY DEF TypeOK
<1>2. index' \in 0 .. Len(args')
  BY DEF TypeOK, Parsing
<1>3. process = "main"
  BY ParsingInMain DEF Parsing
<1> QED
  BY <1>1, <1>2, <1>3 DEF TypeOK, Configs

LEMMA ParseInvariant ==
    ASSUME ConfigInv, Parse
    PROVE  TypeOK' /\ Sound' /\ LastOptionWins'
<1>0. TypeOK /\ SoundSettings /\ AcceptedConfigRuns /\ LastOptionWins /\ out \in Configs
  BY DEF ConfigInv, TypeOK, Configs
<1> USE <1>0, ServerConfigAssumption, Ports
<1>1. CASE ParseHelp
  <2>1. status = "parsing" /\ status' = "kHelpRequested" /\ UNCHANGED <<args, index, out, process>>
    BY <1>1 DEF ParseHelp, Parsing
  <2>2. TypeOK' /\ Sound'
    BY <2>1, ParsingInMain DEF TypeOK, Sound, SoundSettings, AcceptedConfigRuns
  <2>3. LastOptionWins'
    BY <2>1 DEF LastOptionWins
  <2> QED
    BY <2>2, <2>3
<1>2. CASE RefuseArgument
  <2>1. status = "parsing" /\ status' = "kInvalidArgument"
        /\ UNCHANGED <<args, index, out, process>>
    BY <1>2 DEF RefuseArgument, Parsing, Refuse
  <2> QED
    BY <2>1, RefusedSound DEF TypeOK
<1>3. CASE EndOfArguments
  <2>1. status = "parsing" /\ status' = "kOk" /\ index = Len(args)
        /\ UNCHANGED <<args, index, out, process>>
    BY <1>3 DEF EndOfArguments
  <2>2. TypeOK' /\ Sound'
    BY <2>1, ParsingInMain DEF TypeOK, Sound, SoundSettings, AcceptedConfigRuns
  <2>3. LastOptionWins'
    BY <2>1, LastOptionKept
  <2> QED
    BY <2>2, <2>3
<1>4. CASE ParseBenchmark
  <2>1. /\ Parsing /\ Arg = "--benchmark" /\ index' = index + 1
        /\ out' = [out EXCEPT !.benchmark = TRUE]
        /\ UNCHANGED <<args, status, process>>
    BY <1>4 DEF ParseBenchmark
  <2>2. out' \in Configs /\ out'.benchmark = TRUE
    BY <2>1, BenchmarkOn
  <2>3. TypeOK'
    BY <2>1, <2>2, ReadTyped DEF Parsing
  <2>4. out'.workers = out.workers
    BY <2>1 DEF Configs
  <2>5. Sound'
    BY <2>1, <2>2, <2>3, <2>4, KeptSound DEF SoundSettings, Parsing
  <2>6. LastOptionWins'
    BY <2>1, SettingsRead DEF Configs, Options, Flags, OptionsWithValue, Parsing
  <2> QED
    BY <2>3, <2>5, <2>6
<1>5. CASE ParsePort
  <2>1. /\ Parsing /\ Arg = "--port" /\ index + 1 < Len(args)
        /\ index' = index + 2 /\ UNCHANGED <<args, process>>
    BY <1>5 DEF ParsePort, HasValue
  <2>2. Value \in Words
    BY <2>1 DEF TypeOK, Value
  <2>3. CASE ~IsPort(Value)
    <3>1. status' = "kInvalidArgument"
      BY <1>5, <2>3 DEF ParsePort, Refuse
    <3>2. out' \in Configs
      BY <1>5, <2>3 DEF ParsePort, Configs, IsInt, IsU64
    <3>3. TypeOK'
      BY <2>1, <3>1, <3>2, ReadTyped
    <3> QED
      BY <2>1, <3>1, <3>3, RefusedSound DEF Parsing
  <2>4. CASE IsPort(Value)
    <3>1. UNCHANGED status /\ out' = [out EXCEPT !.port = NumberOf[Value]]
      BY <1>5, <2>4 DEF ParsePort
    <3>2. out' \in Configs
      BY <2>2, <2>4, <3>1 DEF Configs, IsPort, IsInt, IsU64
    <3>3. TypeOK'
      BY <2>1, <3>1, <3>2, ReadTyped DEF Parsing
    <3>4. Sound'
      BY <2>1, <2>4, <3>1, <3>3, KeptSound DEF Configs, SoundSettings, Parsing, ValidWorkers
    <3>5. LastOptionWins'
      BY <2>1, <3>1, SettingsRead DEF Configs, Options, OptionsWithValue, Parsing
    <3> QED
      BY <3>3, <3>4, <3>5
  <2> QED
    BY <2>3, <2>4
<1>6. CASE ParseWorkers
  <2>1. /\ Parsing /\ Arg = "--workers" /\ index + 1 < Len(args)
        /\ index' = index + 2 /\ UNCHANGED <<args, process>>
    BY <1>6 DEF ParseWorkers, HasValue
  <2>2. Value \in Words
    BY <2>1 DEF TypeOK, Value
  <2>3. CASE ~(IsInt(Value) /\ ValidWorkers(NumberOf[Value]))
    <3>1. status' = "kInvalidArgument"
      BY <1>6, <2>3 DEF ParseWorkers, Refuse
    <3>2. out' \in Configs
      BY <1>6, <2>3 DEF ParseWorkers, Configs, IsInt, IsU64
    <3>3. TypeOK'
      BY <2>1, <3>1, <3>2, ReadTyped
    <3> QED
      BY <2>1, <3>1, <3>3, RefusedSound DEF Parsing
  <2>4. CASE IsInt(Value) /\ ValidWorkers(NumberOf[Value])
    <3>1. UNCHANGED status /\ out' = [out EXCEPT !.workers = NumberOf[Value]]
      BY <1>6, <2>4 DEF ParseWorkers
    <3>2. out' \in Configs
      BY <2>2, <2>4, <3>1 DEF Configs, IsPort, IsInt, IsU64
    <3>3. TypeOK'
      BY <2>1, <3>1, <3>2, ReadTyped DEF Parsing
    <3>4. Sound'
      BY <2>1, <2>4, <3>1, <3>3, KeptSound DEF Configs, SoundSettings, Parsing, ValidWorkers
    <3>5. LastOptionWins'
      BY <2>1, <3>1, SettingsRead DEF Configs, Options, OptionsWithValue, Parsing
    <3> QED
      BY <3>3, <3>4, <3>5
  <2> QED
    BY <2>3, <2>4
<1>7. CASE ParseCampaignDataPath
  <2>1. /\ Parsing /\ Arg = "--campaign-data-path" /\ index + 1 < Len(args)
        /\ index' = index + 2 /\ UNCHANGED <<args, process>>
    BY <1>7 DEF ParseCampaignDataPath, HasValue
  <2>2. Value \in Words
    BY <2>1 DEF TypeOK, Value
  <2>3. UNCHANGED status /\ out' = [out EXCEPT !.campaign_data_path = Value]
    BY <1>7 DEF ParseCampaignDataPath
  <2>4. out' \in Configs
    BY <2>2, <2>3 DEF Configs
  <2>5. TypeOK'
    BY <2>1, <2>3, <2>4, ReadTyped DEF Parsing
  <2>6. Sound'
    BY <2>1, <2>3, <2>5, KeptSound DEF Configs, SoundSettings, Parsing
  <2>7. LastOptionWins'
    BY <2>1, <2>3, SettingsRead DEF Configs, Options, OptionsWithValue, Parsing
  <2> QED
    BY <2>5, <2>6, <2>7
<1>8. CASE ParseBenchmarkJson
  <2>1. /\ Parsing /\ Arg = "--benchmark-json" /\ index + 1 < Len(args)
        /\ index' = index + 2 /\ UNCHANGED <<args, process>>
    BY <1>8 DEF ParseBenchmarkJson, HasValue
  <2>2. Value \in Words
    BY <2>1 DEF TypeOK, Value
  <2>3. UNCHANGED status /\ out' = [out EXCEPT !.benchmark = TRUE, !.benchmark_json_path = Value]
    BY <1>8 DEF ParseBenchmarkJson
  <2>4. out' \in Configs /\ out'.benchmark = TRUE
    BY <2>2, <2>3, JsonBenchmarkOn
  <2>5. TypeOK'
    BY <2>1, <2>3, <2>4, ReadTyped DEF Parsing
  <2>6. Sound'
    BY <2>1, <2>3, <2>5, <2>4, KeptSound DEF Configs, SoundSettings, Parsing
  <2>7. LastOptionWins'
    BY <2>1, <2>3, SettingsRead DEF Configs, Options, OptionsWithValue, Parsing
  <2> QED
    BY <2>5, <2>6, <2>7
<1>9. CASE ParseBenchmarkRequests
  <2>1. /\ Parsing /\ Arg = "--benchmark-requests" /\ index + 1 < Len(args)
        /\ index' = index + 2 /\ UNCHANGED <<args, process>>
    BY <1>9 DEF ParseBenchmarkRequests, HasValue
  <2>2. Value \in Words
    BY <2>1 DEF TypeOK, Value
  <2>3. CASE ~(IsU64(Value) /\ NumberOf[Value] # 0)
    <3>1. status' = "kInvalidArgument"
      BY <1>9, <2>3 DEF ParseBenchmarkRequests, Refuse
    <3>2. out' \in Configs
      BY <1>9, <2>3 DEF ParseBenchmarkRequests, Configs, IsInt, IsU64
    <3>3. TypeOK'
      BY <2>1, <3>1, <3>2, ReadTyped
    <3> QED
      BY <2>1, <3>1, <3>3, RefusedSound DEF Parsing
  <2>4. CASE IsU64(Value) /\ NumberOf[Value] # 0
    <3>1. UNCHANGED status /\ out' = [out EXCEPT !.benchmark = TRUE, !.benchmark_requests = NumberOf[Value]]
      BY <1>9, <2>4 DEF ParseBenchmarkRequests
    <3>2. out' \in Configs /\ out'.benchmark = TRUE
      <4>1. NumberOf[Value] \in 0 .. U64Max
        BY <2>4 DEF IsU64
      <4> QED
        BY <3>1, <4>1, RequestsBenchmarkOn
    <3>3. TypeOK'
      BY <2>1, <3>1, <3>2, ReadTyped DEF Parsing
    <3>4. Sound'
      BY <2>1, <2>4, <3>1, <3>3, <3>2, KeptSound DEF Configs, SoundSettings, Parsing, ValidWorkers
    <3>5. LastOptionWins'
      BY <2>1, <3>1, SettingsRead DEF Configs, Options, OptionsWithValue, Parsing
    <3> QED
      BY <3>3, <3>4, <3>5
  <2> QED
    BY <2>3, <2>4
<1>10. CASE ParseBenchmarkDurationMs
  <2>1. /\ Parsing /\ Arg = "--benchmark-duration-ms" /\ index + 1 < Len(args)
        /\ index' = index + 2 /\ UNCHANGED <<args, process>>
    BY <1>10 DEF ParseBenchmarkDurationMs, HasValue
  <2>2. Value \in Words
    BY <2>1 DEF TypeOK, Value
  <2>3. CASE ~(IsU64(Value) /\ NumberOf[Value] # 0)
    <3>1. status' = "kInvalidArgument"
      BY <1>10, <2>3 DEF ParseBenchmarkDurationMs, Refuse
    <3>2. out' \in Configs
      BY <1>10, <2>3 DEF ParseBenchmarkDurationMs, Configs, IsInt, IsU64
    <3>3. TypeOK'
      BY <2>1, <3>1, <3>2, ReadTyped
    <3> QED
      BY <2>1, <3>1, <3>3, RefusedSound DEF Parsing
  <2>4. CASE IsU64(Value) /\ NumberOf[Value] # 0
    <3>1. UNCHANGED status /\ out' = [out EXCEPT !.benchmark = TRUE, !.benchmark_duration_ms = NumberOf[Value]]
      BY <1>10, <2>4 DEF ParseBenchmarkDurationMs
    <3>2. out' \in Configs /\ out'.benchmark = TRUE
      <4>1. NumberOf[Value] \in 0 .. U64Max
        BY <2>4 DEF IsU64
      <4> QED
        BY <3>1, <4>1, DurationBenchmarkOn
    <3>3. TypeOK'
      BY <2>1, <3>1, <3>2, ReadTyped DEF Parsing
    <3>4. Sound'
      BY <2>1, <2>4, <3>1, <3>3, <3>2, KeptSound DEF Configs, SoundSettings, Parsing, ValidWorkers
    <3>5. LastOptionWins'
      BY <2>1, <3>1, SettingsRead DEF Configs, Options, OptionsWithValue, Parsing
    <3> QED
      BY <3>3, <3>4, <3>5
  <2> QED
    BY <2>3, <2>4
<1> QED
  BY <1>1, <1>2, <1>3, <1>4, <1>5, <1>6, <1>7, <1>8, <1>9, <1>10 DEF Parse

-----------------------------------------------------------------------------
(***************************************************************************)
(* The steps of main and run_server.                                       *)
(***************************************************************************)
LEMMA ProcessInvariant ==
    ASSUME ConfigInv, Dispatch \/ TestConfig \/ LoadCampaigns
    PROVE  TypeOK' /\ Sound' /\ LastOptionWins'
<1>0. TypeOK /\ SoundSettings /\ AcceptedConfigRuns /\ LastOptionWins
  BY DEF ConfigInv
<1>1. /\ UNCHANGED <<args, index, out, status>>
      /\ status # "parsing"
  BY <1>0 DEF Dispatch, TestConfig, LoadCampaigns, TypeOK
<1>2. LastOptionWins'
  BY <1>0, <1>1, LastOptionKept
<1>3. CASE Dispatch
  <2>1. CASE status = "kHelpRequested"
    <3>1. process' = "exit_0"
      BY <1>3, <2>1 DEF Dispatch
    <3> QED
      BY <1>0, <1>1, <1>2, <2>1, <3>1 DEF TypeOK, Sound, SoundSettings, AcceptedConfigRuns
  <2>2. CASE status = "kInvalidArgument"
    <3>1. process' = "exit_1"
      BY <1>3, <2>2 DEF Dispatch
    <3> QED
      BY <1>0, <1>1, <1>2, <2>2, <3>1 DEF TypeOK, Sound, SoundSettings, AcceptedConfigRuns
  <2>3. CASE status = "kOk"
    <3>1. process' = "run_server"
      BY <1>3, <2>3 DEF Dispatch
    <3>2. out.port # 0
      BY <1>0, Ports DEF TypeOK
    <3> QED
      BY <1>0, <1>1, <1>2, <2>3, <3>1, <3>2 DEF TypeOK, Sound, SoundSettings, AcceptedConfigRuns
  <2> QED
    BY <1>0, <1>1, <2>1, <2>2, <2>3 DEF TypeOK
<1>4. CASE TestConfig \/ LoadCampaigns
  <2>1. process \in {"run_server", "loading"} /\ process' \in {"loading", "started", "exit_1"}
    BY <1>4 DEF TestConfig, LoadCampaigns
  <2> QED
    BY <1>0, <1>1, <1>2, <2>1 DEF TypeOK, Sound, SoundSettings, AcceptedConfigRuns
<1> QED
  BY <1>3, <1>4

\* main accepts exactly the configurations run_server can run with, and those are what
\* the last options say: the invariant that says so is kept by every step.
THEOREM ConfigInvariant == Spec => []ConfigInv
<1>1. Init => ConfigInv
  BY InitInvariant
<1>2. ConfigInv /\ [Next]_vars => ConfigInv'
  <2> SUFFICES ASSUME ConfigInv, [Next]_vars PROVE ConfigInv'
    OBVIOUS
  <2>1. CASE Parse
    BY <2>1, ParseInvariant DEF ConfigInv, Sound
  <2>2. CASE Dispatch \/ TestConfig \/ LoadCampaigns
    BY <2>2, ProcessInvariant DEF ConfigInv, Sound
  <2>3. CASE UNCHANGED vars
    <3>1. LastOptionWins'
      BY <2>3, LastOptionKept DEF vars, ConfigInv
    <3> QED
      BY <2>3, <3>1 DEF vars, ConfigInv, TypeOK, SoundSettings, AcceptedConfigRuns
  <2> QED
    BY <2>1, <2>2, <2>3 DEF Next
<1> QED
  BY <1>1, <1>2, PTL DEF Spec

\* Every variable keeps its type, whatever the command line: the port fits its 16 bits.
THEOREM ConfigTypeCorrect == Spec => []TypeOK
<1>1. ConfigInv => TypeOK
  BY DEF ConfigInv
<1> QED
  BY <1>1, ConfigInvariant, PTL

\* No configuration parse_server_config accepts is refused by run_server, and a worker
\* count it refuses, though out holds it, never gets there.
THEOREM AcceptedConfigsRun == Spec => []AcceptedConfigRuns
<1>1. ConfigInv => AcceptedConfigRuns
  BY DEF ConfigInv
<1> QED
  BY <1>1, ConfigInvariant, PTL

\* Of each option the last occurrence decides, and no argument is both an option and the
\* value of one, in a command line of any length.
THEOREM LastOptionsWin == Spec => []LastOptionWins
<1>1. ConfigInv => LastOptionWins
  BY DEF ConfigInv
<1> QED
  BY <1>1, ConfigInvariant, PTL
==============================================================================
