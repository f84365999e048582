-------------------------- MODULE PinAuthorityProofs --------------------------
(***************************************************************************)
(* Proofs about PinAuthority, for every set of PINs, every retry limit and *)
(* every combination of faults.                                            *)
(*                                                                         *)
(* A request works on a view of the authority: a good view agrees with the *)
(* stored record.  Refreshing a good view gives a good view, and writing a *)
(* fit record from a good view keeps the inductive invariant; what remains *)
(* for each action is that the record it writes is fit.                    *)
(***************************************************************************)
EXTENDS PinAuthority, TLAPS

Views == [live : PersistentPinState, stored : {"Read", "Unread", "Unreadable"},
          token : Tokens, ok : BOOLEAN]

GoodView(v) ==
    /\ v \in Views
    /\ IF v.stored = "Read" THEN v.live = Loaded(file) /\ ~Corrupt(file, key)
                            ELSE v.live.always_uv
    /\ TokenBound(v.token, v.stored, v.live)

-----------------------------------------------------------------------------
(* Constants *)

\* The two values a retry counter is ever set to are in its range.
LEMMA RetryValues == 0 \in 0..MAX_PIN_RETRIES /\ MAX_PIN_RETRIES \in 0..MAX_PIN_RETRIES
BY LimitsAssumption

\* The constant records: the default one, the closed one, no file, no token and
\* no request have their types, and the default one is fit to be stored.
LEMMA DefaultFit ==
    /\ DefaultPinState \in PersistentPinState
    /\ UnreadablePinState \in PersistentPinState
    /\ FitRecord(DefaultPinState, 0)
    /\ Missing \in Files
    /\ NoToken \in Tokens
    /\ NoRequest \in Requests
<1>1. DefaultPinState \in PersistentPinState
  BY PinsAssumption, LimitsAssumption DEF DefaultPinState, PersistentPinState, Slots
<1>2. UnreadablePinState \in PersistentPinState
  BY <1>1, RetryValues DEF UnreadablePinState, PersistentPinState
<1>3. FitRecord(DefaultPinState, 0)
  <2>1. DefaultPinState.pin_hash = NoPin /\ DefaultPinState.pin_retries = MAX_PIN_RETRIES
    BY DEF DefaultPinState
  <2>2. \A q \in Protocols : DefaultPinState.persistent_tokens[q] = "none"
    BY DEF DefaultPinState
  <2>3. QED
    BY <1>1, <2>1, <2>2, PinsAssumption, LimitsAssumption
       DEF FitRecord, GrantsBound, HonoursPolicy
<1>4. Missing \in Files
  BY <1>1, LimitsAssumption DEF Missing, Files
<1>5. NoToken \in Tokens
  BY DEF NoToken, Tokens
<1>6. NoRequest \in Requests
  BY DEF Requests
<1>7. QED
  BY <1>1, <1>2, <1>3, <1>4, <1>5, <1>6

\* The fields of a PIN check are what the handlers take them for.
LEMMA PinRequestsTyped ==
    ASSUME NEW r \in PinRequests
    PROVE  /\ r \in Requests
           /\ r.pin \in Pins
           /\ r.op = "changePin" => r.new \in Pins
           /\ r.op = "getToken" => r.permissions \in SUBSET Permissions
           /\ r.op = "getPcmrToken" => r.protocol \in Protocols
BY DEF PinRequests, Requests, Permissions

\* A record fit after w wrong PINs is fit after none.
LEMMA FitWeaken ==
    ASSUME NEW p, NEW w \in Nat, FitRecord(p, w)
    PROVE  FitRecord(p, 0)
BY LimitsAssumption DEF FitRecord, PersistentPinState

-----------------------------------------------------------------------------
(* Views *)

\* The file the engine sees holds a fit record, and loads as that record.
LEMMA StoredIsFit ==
    ASSUME IInv
    PROVE  /\ FitRecord(file.record, wrong)
           /\ Loaded(file) = file.record
           /\ Loaded(file) \in PersistentPinState
BY DEF IInv, TypeOK, FitFile, FitRecord, Loaded, Missing

\* What the engine holds after it has read the store is fit to be stored.
LEMMA GoodViewFit ==
    ASSUME IInv, NEW v, GoodView(v), v.stored = "Read"
    PROVE  FitRecord(v.live, wrong)
BY StoredIsFit DEF GoodView

\* A durable PIN is still there in a good view of an authority under its key.
LEMMA PinnedIsSet ==
    ASSUME IInv, NEW v, GoodView(v), v.stored = "Read", key \in pinned
    PROVE  IsSet(v.live)
<1>1. file # Missing /\ file.key # 0
  BY DEF IInv, TypeOK, ProtectionPersists, FitFile
<1>2. file.key = key
  BY <1>1 DEF GoodView, Corrupt
<1>3. IsSet(file.record)
  BY <1>2 DEF IInv, TypeOK, ProtectionPersists
<1>4. QED
  BY <1>3, StoredIsFit DEF GoodView

\* Between the stages of a request the engine has a good view.
LEMMA ViewIsGood ==
    ASSUME IInv, phase \in {"idle", "compare", "verified"}
    PROVE  GoodView(View)
BY DEF IInv, TypeOK, View, Views, GoodView, Agreement

\* Closing an authority leaves a record.
LEMMA ClosedTyped ==
    ASSUME NEW p \in PersistentPinState
    PROVE  Closed(p) \in PersistentPinState
BY RetryValues DEF Closed, PersistentPinState, Slots

\* read_unread_persistent_authority ends with a good view.
LEMMA ReadUnreadGood ==
    ASSUME IInv, NEW v, GoodView(v), v.stored = "Unread", NEW io \in BOOLEAN
    PROVE  GoodView(ReadUnread(v, io))
<1>1. CASE io
  BY <1>1 DEF ReadUnread, Failed, GoodView, Views
<1>2. CASE ~io /\ Corrupt(file, key)
  BY <1>2 DEF ReadUnread, Failed, GoodView, Views, TokenBound
<1>3. CASE ~io /\ ~Corrupt(file, key)
  BY <1>3, StoredIsFit, DefaultFit DEF ReadUnread, GoodView, Views, TokenBound
<1>4. QED
  BY <1>1, <1>2, <1>3

\* refresh_persistent_authority and read_if_unread end with a good view.
LEMMA RefreshGood ==
    ASSUME IInv, NEW v, GoodView(v), NEW io \in BOOLEAN
    PROVE  /\ GoodView(Refresh(v, io))
           /\ GoodView(ReadIfUnread(v, io))
<1>1. CASE v.stored = "Unread"
  BY <1>1, ReadUnreadGood DEF Refresh, ReadIfUnread
<1>2. CASE v.stored = "Unreadable"
  BY <1>2 DEF Refresh, ReadIfUnread
<1>3. CASE v.stored = "Read"
  <2>1. v.live = file.record /\ ~Corrupt(file, key)
    BY <1>3, StoredIsFit DEF GoodView
  <2>2. SamePolicy(v.live, file.record)
    BY <2>1 DEF SamePolicy
  <2>3. CASE io
    BY <1>3, <2>3 DEF Refresh, ReadIfUnread, RefreshRead, Failed, GoodView, Views
  <2>4. CASE ~io /\ file.key = key
    BY <1>3, <2>1, <2>2, <2>4 DEF Refresh, ReadIfUnread, RefreshRead, Corrupt
  <2>5. CASE ~io /\ file.key # key
    <3>1. file.key = 0 /\ key # 0
      BY <2>1, <2>5 DEF Corrupt
    <3>2. file = Missing
      BY <3>1 DEF IInv, TypeOK, FitFile
    <3>3. /\ v.live = DefaultPinState
          /\ ~IsSet(v.live)
          /\ \A p \in Protocols : v.live.persistent_tokens[p] = "none"
      BY <2>1, <3>2 DEF Missing, DefaultPinState, IsSet
    <3>4. QED
      BY <1>3, <2>5, <3>1, <3>3 DEF Refresh, ReadIfUnread, RefreshRead
  <2>6. QED
    BY <2>3, <2>4, <2>5
<1>4. QED
  BY <1>1, <1>2, <1>3 DEF GoodView, Views

-----------------------------------------------------------------------------
(* Writes *)

\* What save_pin_state may change: the file and its images, by the saved record.
LEMMA SaveEffect ==
    ASSUME TypeOK, NEW p, NEW stored, NEW o,
           stored = "Read" => p \in PersistentPinState,
           Save(p, stored, o)
    PROVE  /\ key' = key /\ keyImages' = keyImages /\ flush_supported' = flush_supported
           /\ file' \in Files /\ images' \subseteq Files /\ file' \in images'
           /\ o = "Err" => file' = file /\ images' = images
           /\ Published(o) =>
                 /\ stored = "Read" /\ key # 0
                 /\ file' = [key |-> key, record |-> p]
                 /\ images' \subseteq images \cup {file'}
           /\ o = "Flushed" => images' = {file'}
BY DEF TypeOK, Save, Published, Files, disk

\* A save of a fit record leaves only fit files for power loss to find.
LEMMA SaveFit ==
    ASSUME TypeOK, NEW p, NEW stored, NEW o, NEW w \in Nat,
           \A f \in images : FitFile(f, w),
           stored = "Read" => FitRecord(p, w),
           Save(p, stored, o)
    PROVE  \A f \in images' : FitFile(f, w)
<1>1. stored = "Read" => p \in PersistentPinState
  BY DEF FitRecord
<1>2. CASE o = "Err"
  BY <1>1, <1>2, SaveEffect
<1>3. CASE o # "Err"
  <2>1. /\ stored = "Read" /\ key # 0
        /\ file' = [key |-> key, record |-> p]
        /\ images' \subseteq images \cup {file'}
    BY <1>1, <1>3, SaveEffect DEF Published
  <2>2. FitFile(file', w)
    BY <2>1 DEF FitFile
  <2>3. QED
    BY <2>1, <2>2
<1>4. QED
  BY <1>2, <1>3

\* A save that keeps a PIN where one was durable keeps ProtectionPersists.
LEMMA SaveProtects ==
    ASSUME TypeOK, ProtectionPersists, NEW p, NEW stored, NEW o,
           stored = "Read" => p \in PersistentPinState,
           stored = "Read" /\ key \in pinned => IsSet(p),
           Save(p, stored, o),
           pinned' = pinned
    PROVE  ProtectionPersists'
<1>1. keyImages' = keyImages
  BY SaveEffect
<1>2. CASE o = "Err"
  BY <1>1, <1>2, SaveEffect DEF ProtectionPersists
<1>3. CASE o # "Err"
  <2>1. /\ stored = "Read" /\ key # 0
        /\ file' = [key |-> key, record |-> p]
        /\ images' \subseteq images \cup {file'}
    BY <1>3, SaveEffect DEF Published
  <2>2. file' # Missing
    BY <2>1 DEF Missing
  <2>3. QED
    BY <1>1, <2>1, <2>2 DEF ProtectionPersists
<1>4. QED
  BY <1>2, <1>3

\* The shape most actions have: write a fit record from a good view and adopt
\* it if it was published.
LEMMA WriteKeeps ==
    ASSUME IInv,
           NEW v, GoodView(v), NEW new, NEW w, NEW o,
           wrong' \in Nat,
           \A f \in images : FitFile(f, wrong'),
           v.stored = "Read" => FitRecord(new, wrong'),
           v.stored = "Read" /\ IsSet(v.live) => IsSet(new),
           w \in Views, w.stored = v.stored, w.live = new,
           TokenBound(w.token, w.stored, w.live),
           Save(new, v.stored, o),
           Adopt(IF Published(o) THEN w ELSE v),
           consecutive_mismatches' \in 0..MAX_CONSECUTIVE_PIN_MISMATCHES,
           phase' \in {"idle", "compare", "verified"}, req' \in Requests, Attempt',
           \/ pinned' = pinned
           \/ o = "Flushed" /\ pinned' = pinned \cup {key} /\ IsSet(new)
    PROVE  IInv'
<1> DEFINE a == IF Published(o) THEN w ELSE v
<1>1. TypeOK /\ ProtectionPersists
  BY DEF IInv
<1>4. pin_state' = a.live /\ stored_pin_state' = a.stored /\ token' = a.token
  BY DEF Adopt
<1>5. v.stored = "Read" => new \in PersistentPinState
  BY DEF FitRecord
<1>6. a \in Views
  BY DEF GoodView
<1>7. TypeOK'
  <2>1. /\ key' = key /\ keyImages' = keyImages /\ flush_supported' = flush_supported
        /\ file' \in Files /\ images' \subseteq Files /\ file' \in images'
    BY <1>1, <1>5, SaveEffect
  <2>2. pinned' \subseteq 1..MaxKey
    <3>1. pinned \subseteq 1..MaxKey /\ key \in 0..MaxKey
      BY <1>1 DEF TypeOK
    <3>2. o = "Flushed" => key # 0
      BY <1>1, <1>5, SaveEffect DEF Published
    <3>3. o = "Flushed" => key \in 1..MaxKey
      BY <3>1, <3>2, LimitsAssumption
    <3>4. QED
      BY <3>1, <3>3
  <2>3. phase' \in Phases
    BY DEF Phases
  <2>4. /\ pin_state' \in PersistentPinState
        /\ stored_pin_state' \in {"Read", "Unread", "Unreadable"}
        /\ token' \in Tokens
    BY <1>4, <1>6 DEF Views
  <2>5. QED
    BY <1>1, <2>1, <2>2, <2>3, <2>4 DEF TypeOK
<1>8. \A f \in images' : FitFile(f, wrong')
  BY <1>1, SaveFit DEF IInv
<1>9. Agreement(pin_state, stored_pin_state, phase, file, key)'
  <2>1. CASE Published(o)
    <3>1. v.stored = "Read" /\ key' = key /\ key # 0 /\ file' = [key |-> key, record |-> new]
      BY <1>1, <1>5, <2>1, SaveEffect
    <3>2. Loaded(file') = new /\ ~Corrupt(file', key')
      BY <3>1 DEF Loaded, Corrupt
    <3>3. QED
      BY <1>4, <2>1, <3>1, <3>2 DEF Agreement
  <2>2. CASE ~Published(o)
    <3>1. key' = key /\ file' = file
      BY <1>1, <1>5, <2>2, SaveEffect DEF Published
    <3>2. QED
      BY <1>4, <2>2, <3>1 DEF Agreement, GoodView
  <2>3. QED
    BY <2>1, <2>2
<1>10. ProtectionPersists'
  <2>1. v.stored = "Read" /\ key \in pinned => IsSet(new)
    BY PinnedIsSet
  <2>2. CASE pinned' = pinned
    BY <1>1, <1>5, <2>1, <2>2, SaveProtects
  <2>3. CASE o = "Flushed" /\ IsSet(new)
    <3>1. /\ key # 0 /\ keyImages' = keyImages
          /\ file' = [key |-> key, record |-> new]
          /\ images' = {file'}
      BY <1>1, <1>5, <2>3, SaveEffect DEF Published
    <3>2. file' # Missing /\ IsSet(file'.record)
      BY <2>3, <3>1 DEF Missing
    <3>3. QED
      BY <3>1, <3>2 DEF ProtectionPersists
  <2>4. QED
    BY <2>2, <2>3
<1>11. TokenBound(token', stored_pin_state', pin_state')
  BY <1>4 DEF GoodView
<1>12. QED
  BY <1>7, <1>8, <1>9, <1>10, <1>11 DEF IInv

\* A refusal, or a reread alone, keeps the invariant.
LEMMA RefuseKeeps ==
    ASSUME IInv, NEW v, GoodView(v), Refuse(v)
    PROVE  IInv'
<1>1. UNCHANGED <<consecutive_mismatches, disk, history>> /\ phase' = "idle" /\ req' = NoRequest
  BY DEF Refuse, Reply
<1>2. pin_state' = v.live /\ stored_pin_state' = v.stored /\ token' = v.token
  BY DEF Refuse, Adopt
<1>3. TypeOK'
  BY <1>1, <1>2, DefaultFit DEF IInv, TypeOK, GoodView, Views, Phases, disk, history
<1>4. \A f \in images' : FitFile(f, wrong')
  BY <1>1 DEF IInv, disk, history
<1>5. Agreement(pin_state, stored_pin_state, phase, file, key)'
  BY <1>1, <1>2 DEF Agreement, GoodView, disk, history
<1>6. ProtectionPersists'
  BY <1>1 DEF IInv, ProtectionPersists, disk, history
<1>7. TokenBound(token', stored_pin_state', pin_state') /\ Attempt'
  BY <1>1, <1>2 DEF GoodView, Attempt
<1>8. QED
  BY <1>3, <1>4, <1>5, <1>6, <1>7 DEF IInv

-----------------------------------------------------------------------------
(* The PIN check *)

\* A read fails or does not.
LEMMA IoErrorsBoolean == IoErrors \subseteq BOOLEAN
BY DEF IoErrors

\* verify_pin_hash_enc up to the comparison keeps the invariant: the retry is
\* spent in every image before a PIN is compared.
LEMMA BeginAttemptKeeps ==
    ASSUME IInv, NEW r \in PinRequests, NEW io1 \in BOOLEAN, NEW io2 \in BOOLEAN,
           NEW o \in Outcomes, BeginAttempt(r, io1, io2, o)
    PROVE  IInv'
<1> DEFINE u == ReadIfUnread(View, io1)
           v == IF u.ok /\ CheckAttemptAllowed(u.live) THEN Refresh(u, io2) ELSE Failed(u)
           w == [v EXCEPT !.live = Debited(v.live)]
<1>1. phase = "idle"
  BY DEF BeginAttempt
<1>2. GoodView(u)
  BY <1>1, ViewIsGood, RefreshGood
<1>3. GoodView(v)
  <2>1. GoodView(Refresh(u, io2))
    BY <1>2, RefreshGood
  <2>2. GoodView(Failed(u))
    BY <1>2 DEF GoodView, Failed, Views
  <2>3. QED
    BY <2>1, <2>2
<1> HIDE DEF u, v
<1>4. CASE ~v.ok \/ ~CheckAttemptAllowed(v.live) \/ ~flush_supported
  <2>1. Refuse(v)
    BY <1>4 DEF BeginAttempt, u, v
  <2>2. QED
    BY <1>3, <2>1, RefuseKeeps
<1>5. CASE ~(~v.ok \/ ~CheckAttemptAllowed(v.live) \/ ~flush_supported)
  <2>1. /\ Save(Debited(v.live), v.stored, o)
        /\ Adopt(IF Published(o) THEN w ELSE v)
        /\ IF o = "Flushed" THEN phase' = "compare" /\ req' = r ELSE Reply
        /\ UNCHANGED <<consecutive_mismatches, history>>
    BY <1>5 DEF BeginAttempt, Confirmed, u, v
  <2>2. /\ v.live \in PersistentPinState /\ v.live.pin_retries > 0 /\ IsSet(v.live)
        /\ consecutive_mismatches < MAX_CONSECUTIVE_PIN_MISMATCHES
        /\ consecutive_mismatches \in 0..MAX_CONSECUTIVE_PIN_MISMATCHES
    BY <1>3, <1>5 DEF CheckAttemptAllowed, GoodView, Views, IInv, TypeOK
  <2>3. /\ Debited(v.live) \in PersistentPinState
        /\ Debited(v.live).pin_retries = v.live.pin_retries - 1
        /\ Debited(v.live).pin_hash = v.live.pin_hash
        /\ Debited(v.live).force_pin_change = v.live.force_pin_change
        /\ Debited(v.live).persistent_tokens = v.live.persistent_tokens
        /\ Debited(v.live).min_pin_length = v.live.min_pin_length
        /\ Debited(v.live).pin_complexity_policy = v.live.pin_complexity_policy
    BY <2>2, LimitsAssumption DEF Debited, PersistentPinState
  <2>4. v.stored = "Read" =>
          /\ FitRecord(Debited(v.live), wrong)
          /\ wrong + Debited(v.live).pin_retries < MAX_PIN_RETRIES
    <3>1. SUFFICES ASSUME v.stored = "Read"
                   PROVE  /\ FitRecord(Debited(v.live), wrong)
                          /\ wrong + Debited(v.live).pin_retries < MAX_PIN_RETRIES
      OBVIOUS
    <3>2. FitRecord(v.live, wrong) /\ wrong \in Nat
      BY <1>3, <3>1, GoodViewFit DEF IInv, TypeOK
    <3>3. wrong + Debited(v.live).pin_retries < MAX_PIN_RETRIES
      BY <2>2, <2>3, <3>2, LimitsAssumption DEF FitRecord, PersistentPinState
    <3>4. GrantsBound(Debited(v.live)) /\ HonoursPolicy(Debited(v.live))
      BY <2>3, <3>2 DEF FitRecord, GrantsBound, HonoursPolicy, MeetsPolicy
    <3>5. QED
      BY <2>3, <3>2, <3>3, <3>4, LimitsAssumption DEF FitRecord, PersistentPinState
  <2>5. w \in Views /\ w.stored = v.stored /\ w.live = Debited(v.live) /\ w.token = v.token
    BY <1>3, <2>3 DEF GoodView, Views
  <2>6. TokenBound(w.token, w.stored, w.live)
    BY <1>3, <2>3, <2>5 DEF GoodView, TokenBound
  <2>7. IsSet(Debited(v.live))
    BY <2>2, <2>3 DEF IsSet
  <2>8. /\ wrong' = wrong /\ pinned' = pinned
        /\ consecutive_mismatches' = consecutive_mismatches
        /\ wrong \in Nat
    BY <2>1 DEF history, IInv, TypeOK
  <2>9. phase' \in {"idle", "compare"} /\ req' \in Requests
    BY <2>1, DefaultFit, PinRequestsTyped DEF Reply
  <2>10. Attempt'
    <3>1. CASE o = "Flushed"
      <4>1. v.stored = "Read" /\ images' = {file'}
        BY <2>1, <2>3, <3>1, SaveEffect DEF IInv, Published
      <4>2. pin_state' = Debited(v.live) /\ stored_pin_state' = v.stored
        BY <2>1, <2>5, <3>1 DEF Adopt, Published
      <4>3. phase' = "compare" /\ req' = r
        BY <2>1, <3>1
      <4>4. QED
        BY <2>2, <2>4, <2>7, <2>8, <4>1, <4>2, <4>3 DEF Attempt, IsSet
    <3>2. CASE o # "Flushed"
      BY <2>1, <3>2 DEF Reply, Attempt
    <3>3. QED
      BY <3>1, <3>2
  <2>11. \A f \in images : FitFile(f, wrong')
    BY <2>8 DEF IInv
  <2> HIDE DEF w
  <2>12. QED
    BY <1>3, <2>1, <2>2, <2>4, <2>5, <2>6, <2>7, <2>8, <2>9, <2>10, <2>11, WriteKeeps
<1>6. QED
  BY <1>4, <1>5

\* What the PIN policy makes of a record does not depend on its retries.
LEMMA RetriesApart ==
    ASSUME NEW p \in PersistentPinState, NEW n \in 0..MAX_PIN_RETRIES
    PROVE  LET q == [p EXCEPT !.pin_retries = n] IN
           /\ q \in PersistentPinState
           /\ q.pin_retries = n
           /\ q.pin_hash = p.pin_hash
           /\ q.force_pin_change = p.force_pin_change
           /\ IsSet(q) <=> IsSet(p)
           /\ GrantsBound(p) => GrantsBound(q)
           /\ HonoursPolicy(p) => HonoursPolicy(q)
<1> DEFINE q == [p EXCEPT !.pin_retries = n]
<1>1. /\ q \in PersistentPinState
      /\ q.pin_retries = n
      /\ q.pin_hash = p.pin_hash
      /\ q.force_pin_change = p.force_pin_change
      /\ q.persistent_tokens = p.persistent_tokens
      /\ q.min_pin_length = p.min_pin_length
      /\ q.pin_complexity_policy = p.pin_complexity_policy
  BY DEF PersistentPinState
<1> HIDE DEF q
<1>2. /\ q \in PersistentPinState
      /\ q.pin_retries = n
      /\ q.pin_hash = p.pin_hash
      /\ q.force_pin_change = p.force_pin_change
      /\ IsSet(q) <=> IsSet(p)
      /\ GrantsBound(p) => GrantsBound(q)
      /\ HonoursPolicy(p) => HonoursPolicy(q)
  BY <1>1 DEF IsSet, GrantsBound, HonoursPolicy, MeetsPolicy
<1>3. QED
  BY <1>2 DEF q

\* A wrong PIN keeps the invariant: the retry it costs was spent before.
LEMMA MismatchKeeps ==
    ASSUME IInv, NEW o \in Outcomes, Mismatch(o)
    PROVE  IInv'
<1>1. phase = "compare" /\ GoodView(View)
  BY ViewIsGood DEF Mismatch
<1>2. /\ View.live = pin_state /\ View.stored = stored_pin_state /\ View.token = token
      /\ View \in Views
  BY <1>1 DEF View, GoodView
<1>3. /\ stored_pin_state = "Read" /\ images = {file}
      /\ wrong + pin_state.pin_retries < MAX_PIN_RETRIES
      /\ consecutive_mismatches < MAX_CONSECUTIVE_PIN_MISMATCHES
  BY <1>1 DEF IInv, Attempt
<1>4. /\ wrong \in Nat /\ consecutive_mismatches \in 0..MAX_CONSECUTIVE_PIN_MISMATCHES
      /\ wrong' = wrong + 1 /\ pinned' = pinned
      /\ consecutive_mismatches' = consecutive_mismatches + 1
      /\ pin_state' = pin_state /\ stored_pin_state' = stored_pin_state /\ token' = token
      /\ phase' = "idle" /\ req' = NoRequest
      /\ Save(pin_state, stored_pin_state, o)
  BY DEF IInv, TypeOK, Mismatch, Reply
<1>5. consecutive_mismatches' \in 0..MAX_CONSECUTIVE_PIN_MISMATCHES /\ wrong' \in Nat
  BY <1>3, <1>4, LimitsAssumption
<1>6. FitRecord(pin_state, wrong')
  BY <1>1, <1>2, <1>3, <1>4, GoodViewFit, LimitsAssumption DEF FitRecord, PersistentPinState
<1>7. \A f \in images : FitFile(f, wrong')
  <2>1. pin_state = file.record
    BY <1>1, <1>2, <1>3, StoredIsFit DEF GoodView
  <2>2. FitFile(file, wrong')
    BY <1>6, <2>1 DEF IInv, TypeOK, FitFile
  <2>3. QED
    BY <1>3, <2>2
<1>8. TokenBound(View.token, View.stored, View.live)
  BY <1>1 DEF GoodView
<1>9. Adopt(IF Published(o) THEN View ELSE View)
  BY <1>2, <1>4 DEF Adopt
<1>10. req' \in Requests /\ Attempt'
  BY <1>4, DefaultFit DEF Attempt
<1>11. QED
  BY <1>1, <1>2, <1>4, <1>5, <1>6, <1>7, <1>8, <1>9, <1>10, WriteKeeps

\* The right PIN keeps the invariant: it ends the count of wrong ones.
LEMMA MatchKeeps ==
    ASSUME IInv, NEW o \in Outcomes, Match(o)
    PROVE  IInv'
<1> DEFINE new == [pin_state EXCEPT !.pin_retries = MAX_PIN_RETRIES]
           w == [View EXCEPT !.live = new]
<1>1. phase = "compare" /\ GoodView(View)
  BY ViewIsGood DEF Match
<1>2. /\ View.live = pin_state /\ View.stored = stored_pin_state /\ View.token = token
      /\ View \in Views
  BY <1>1 DEF View, GoodView
<1>3. /\ stored_pin_state = "Read" /\ IsSet(pin_state) /\ req \in PinRequests
      /\ pin_state \in PersistentPinState
  BY <1>1 DEF IInv, TypeOK, Attempt
<1>4. FitRecord(pin_state, wrong) /\ wrong \in Nat
  BY <1>1, <1>2, <1>3, GoodViewFit DEF IInv, TypeOK
<1>5. /\ new \in PersistentPinState
      /\ new.pin_retries = MAX_PIN_RETRIES
      /\ new.pin_hash = pin_state.pin_hash
      /\ new.force_pin_change = pin_state.force_pin_change
      /\ IsSet(new)
      /\ GrantsBound(new) /\ HonoursPolicy(new)
  BY <1>3, <1>4, RetryValues, RetriesApart DEF FitRecord
<1>6. FitRecord(new, 0)
  BY <1>4, <1>5, LimitsAssumption DEF FitRecord
<1>7. /\ wrong' = 0 /\ pinned' = pinned
      /\ stored_pin_state' = stored_pin_state /\ token' = token
      /\ Save(new, stored_pin_state, o)
      /\ IF Published(o) THEN pin_state' = new /\ consecutive_mismatches' = 0
                         ELSE UNCHANGED <<pin_state, consecutive_mismatches>>
      /\ IF o = "Flushed" THEN phase' = "verified" /\ req' = req
                          ELSE phase' = "idle" /\ req' = NoRequest
      /\ req.pin = pin_state.pin_hash
  BY DEF Match, Confirmed, Reply
<1>8. w \in Views /\ w.live = new /\ w.stored = stored_pin_state /\ w.token = token
  BY <1>2, <1>5 DEF Views
<1> HIDE DEF new, w
<1>9. \A f \in images : FitFile(f, wrong')
  BY <1>4, <1>7, FitWeaken DEF IInv, FitFile
<1>10. TokenBound(w.token, w.stored, w.live)
  BY <1>1, <1>2, <1>5, <1>8 DEF GoodView, TokenBound
<1>11. Adopt(IF Published(o) THEN w ELSE View)
  BY <1>2, <1>7, <1>8 DEF Adopt
<1>12. consecutive_mismatches' \in 0..MAX_CONSECUTIVE_PIN_MISMATCHES
  BY <1>7, LimitsAssumption DEF IInv, TypeOK
<1>13. phase' \in {"idle", "verified"} /\ req' \in Requests
  BY <1>3, <1>7, DefaultFit, PinRequestsTyped
<1>14. Attempt'
  <2>1. CASE o = "Flushed"
    BY <1>3, <1>5, <1>7, <2>1 DEF Attempt, Published, IsSet
  <2>2. CASE o # "Flushed"
    BY <1>7, <2>2 DEF Attempt
  <2>3. QED
    BY <2>1, <2>2
<1>15. QED
  BY <1>1, <1>2, <1>5, <1>6, <1>7, <1>8, <1>9, <1>10, <1>11, <1>12, <1>13, <1>14, WriteKeeps

-----------------------------------------------------------------------------
(* clientPIN subcommands *)

\* The record store_new_pin writes is fit to be stored.
LEMMA NewPinFit ==
    ASSUME NEW p, FitRecord(p, 0), NEW n \in Pins, MeetsPolicy(n, p)
    PROVE  FitRecord(WithNewPin(p, n), 0)
<1> DEFINE q == WithNewPin(p, n)
           t == IF IsSet(p) THEN RotatedTokens ELSE p.persistent_tokens
<1>1. p \in PersistentPinState /\ GrantsBound(p)
  BY DEF FitRecord
<1>2. t \in [Protocols -> Slots] /\ \A c \in Protocols : t[c] \notin Pins
  <2>1. CASE IsSet(p)
    BY <2>1, PinsAssumption DEF RotatedTokens, Slots
  <2>2. CASE ~IsSet(p)
    BY <1>1, <2>2, PinsAssumption DEF IsSet, GrantsBound, PersistentPinState
  <2>3. QED
    BY <2>1, <2>2
<1>3. q = [p EXCEPT !.pin_hash = n, !.pin_retries = MAX_PIN_RETRIES,
                    !.force_pin_change = FALSE, !.persistent_tokens = t]
  BY DEF WithNewPin
<1> HIDE DEF q, t
<1>4. /\ q \in PersistentPinState
      /\ q.pin_hash = n
      /\ q.pin_retries = MAX_PIN_RETRIES
      /\ q.persistent_tokens = t
      /\ q.min_pin_length = p.min_pin_length
      /\ q.pin_complexity_policy = p.pin_complexity_policy
  BY <1>1, <1>2, <1>3, RetryValues DEF PersistentPinState
<1>5. GrantsBound(q) /\ HonoursPolicy(q)
  BY <1>2, <1>4 DEF GrantsBound, HonoursPolicy, MeetsPolicy
<1>6. QED
  BY <1>4, <1>5, PinsAssumption, LimitsAssumption DEF FitRecord, q

\* The record store_new_pin writes is a record with a PIN.
LEMMA WithNewPinTyped ==
    ASSUME NEW p \in PersistentPinState, NEW n \in Pins
    PROVE  WithNewPin(p, n) \in PersistentPinState /\ IsSet(WithNewPin(p, n))
BY RetryValues, PinsAssumption
   DEF WithNewPin, RotatedTokens, PersistentPinState, Slots, IsSet

\* store_new_pin keeps the invariant.
LEMMA StoreNewPinKeeps ==
    ASSUME IInv, NEW v, GoodView(v), NEW n \in Pins, NEW o \in Outcomes,
           MeetsPolicy(n, v.live), StoreNewPin(v, n, o)
    PROVE  IInv'
<1> DEFINE new == WithNewPin(v.live, n)
           w == [v EXCEPT !.live = new, !.token = NoToken]
<1>1. new \in PersistentPinState /\ IsSet(new)
  BY WithNewPinTyped DEF GoodView, Views
<1>2. w \in Views /\ w.live = new /\ w.stored = v.stored /\ w.token = NoToken
  BY <1>1, DefaultFit DEF GoodView, Views
<1>3. /\ Save(new, v.stored, o)
      /\ Adopt(IF Published(o) THEN w ELSE v)
      /\ phase' = "idle" /\ req' = NoRequest
      /\ IF Published(o)
         THEN /\ consecutive_mismatches' = 0 /\ wrong' = 0
              /\ pinned' = IF o = "Flushed" THEN pinned \cup {key} ELSE pinned
         ELSE UNCHANGED <<consecutive_mismatches, wrong, pinned>>
  BY DEF StoreNewPin, Reply, history
<1>4. v.stored = "Read" => FitRecord(new, 0)
  BY GoodViewFit, FitWeaken, NewPinFit DEF IInv, TypeOK
<1> HIDE DEF new, w
<1>5. consecutive_mismatches' \in 0..MAX_CONSECUTIVE_PIN_MISMATCHES /\ wrong' \in Nat
  BY <1>3, LimitsAssumption DEF IInv, TypeOK
<1>6. req' \in Requests /\ Attempt' /\ TokenBound(w.token, w.stored, w.live)
  BY <1>2, <1>3, DefaultFit DEF Attempt, TokenBound
<1>7. CASE Published(o)
  <2>1. \A f \in images : FitFile(f, wrong')
    BY <1>3, <1>7, FitWeaken DEF IInv, TypeOK, FitFile
  <2>2. QED
    BY <1>1, <1>2, <1>3, <1>4, <1>5, <1>6, <1>7, <2>1, WriteKeeps
<1>8. CASE ~Published(o)
  <2>1. UNCHANGED disk /\ o = "Err"
    BY <1>3, <1>8 DEF Save, Published
  <2>2. Refuse(v)
    BY <1>3, <1>8, <2>1 DEF Refuse, Reply, history
  <2>3. QED
    BY <2>2, RefuseKeeps
<1>9. QED
  BY <1>7, <1>8

\* setPIN keeps the invariant.
LEMMA SetPinKeeps ==
    ASSUME IInv, NEW n \in Pins, NEW io \in BOOLEAN, NEW o \in Outcomes, SetPin(n, io, o)
    PROVE  IInv'
<1> DEFINE v == ReadIfUnread(View, io)
<1>1. GoodView(v)
  BY ViewIsGood, RefreshGood DEF SetPin
<1>2. Refuse(v) \/ (MeetsPolicy(n, v.live) /\ StoreNewPin(v, n, o))
  BY DEF SetPin
<1> HIDE DEF v
<1>3. QED
  BY <1>1, <1>2, RefuseKeeps, StoreNewPinKeeps

\* changePIN, once the old PIN is verified, keeps the invariant.
LEMMA ChangePinKeeps ==
    ASSUME IInv, NEW o \in Outcomes, ChangePin(o)
    PROVE  IInv'
<1>1. GoodView(View) /\ req.new \in Pins
  BY ViewIsGood, PinRequestsTyped DEF ChangePin, IInv, Attempt
<1>2. View.live = pin_state
  BY DEF View
<1>3. Refuse(View) \/ (MeetsPolicy(req.new, View.live) /\ StoreNewPin(View, req.new, o))
  BY <1>2 DEF ChangePin
<1>4. QED
  BY <1>1, <1>3, RefuseKeeps, StoreNewPinKeeps

\* Only the token changes, and it stays bound.
LEMMA TokenKeeps ==
    ASSUME IInv, phase \in {"idle", "verified"}, token' \in Tokens,
           TokenBound(token', stored_pin_state, pin_state),
           phase' = "idle", req' \in Requests,
           UNCHANGED <<pin_state, stored_pin_state, consecutive_mismatches, disk, history>>
    PROVE  IInv'
<1>1. TypeOK'
  BY DEF IInv, TypeOK, Phases, disk, history
<1>2. \A f \in images' : FitFile(f, wrong')
  BY DEF IInv, disk, history
<1>3. Agreement(pin_state, stored_pin_state, phase, file, key)' /\ Attempt'
  BY DEF IInv, Agreement, Attempt, disk, history
<1>4. ProtectionPersists'
  BY DEF IInv, ProtectionPersists, disk, history
<1>5. QED
  BY <1>1, <1>2, <1>3, <1>4 DEF IInv

\* Issuing a transient token keeps the invariant.
LEMMA IssueTokenKeeps == ASSUME IInv, IssueToken PROVE IInv'
<1>1. req.permissions \in SUBSET Permissions /\ stored_pin_state = "Read"
  BY PinRequestsTyped DEF IssueToken, IInv, Attempt
<1>2. token' \in Tokens
  BY <1>1 DEF IssueToken, IInv, TypeOK, Tokens, PersistentPinState
<1>3. TokenBound(token', stored_pin_state, pin_state)
  BY <1>1 DEF IssueToken, IInv, TokenBound
<1>4. QED
  BY <1>2, <1>3, DefaultFit, TokenKeeps DEF IssueToken, Reply

\* Expiry of the transient token keeps the invariant.
LEMMA TokenExpiresKeeps == ASSUME IInv, TokenExpires PROVE IInv'
BY DefaultFit, TokenKeeps DEF TokenExpires, TokenBound, IInv, TypeOK

\* Consuming permissions of the transient token keeps the invariant.
LEMMA ConsumeTokenKeeps == ASSUME IInv, ConsumeToken PROVE IInv'
<1>1. token' = [token EXCEPT !.permissions = token.permissions \cap {"lbw"}]
  BY DEF ConsumeToken
<1>2. token' \in Tokens /\ token'.pin = token.pin /\ token # NoToken
  BY <1>1 DEF ConsumeToken, IInv, TypeOK, Tokens, NoToken
<1>3. TokenBound(token', stored_pin_state, pin_state)
  BY <1>2 DEF IInv, TokenBound
<1>4. QED
  BY <1>2, <1>3, TokenKeeps DEF ConsumeToken, IInv, TypeOK

\* The common case of WriteKeeps: nothing but the record and the token changes.
LEMMA SettingKeeps ==
    ASSUME IInv, NEW v, GoodView(v), NEW new, NEW w, NEW o,
           v.stored = "Read" => FitRecord(new, wrong),
           v.stored = "Read" /\ IsSet(v.live) => IsSet(new),
           w \in Views, w.stored = v.stored, w.live = new,
           TokenBound(w.token, w.stored, w.live),
           Save(new, v.stored, o),
           Adopt(IF Published(o) THEN w ELSE v),
           Reply, UNCHANGED <<consecutive_mismatches, history>>
    PROVE  IInv'
<1>1. /\ wrong' = wrong /\ pinned' = pinned /\ wrong \in Nat
      /\ consecutive_mismatches' \in 0..MAX_CONSECUTIVE_PIN_MISMATCHES
      /\ \A f \in images : FitFile(f, wrong)
  BY DEF history, IInv, TypeOK
<1>2. phase' = "idle" /\ req' \in Requests /\ Attempt'
  BY DefaultFit DEF Reply, Attempt
<1>3. QED
  BY <1>1, <1>2, WriteKeeps

\* Granting the persistent token keeps the invariant.
LEMMA GrantKeeps ==
    ASSUME IInv, NEW o \in Outcomes, GrantPersistentToken(o)
    PROVE  IInv'
<1> DEFINE new == [pin_state EXCEPT !.persistent_tokens[req.protocol] = pin_state.pin_hash]
           w == [View EXCEPT !.live = new]
<1>1. /\ GoodView(View) /\ View.live = pin_state /\ View.stored = stored_pin_state
      /\ View.token = token /\ View \in Views
  BY ViewIsGood DEF GrantPersistentToken, View, GoodView
<1>2. /\ stored_pin_state = "Read" /\ IsSet(pin_state) /\ req.protocol \in Protocols
      /\ pin_state \in PersistentPinState
  BY PinRequestsTyped DEF GrantPersistentToken, IInv, Attempt, TypeOK
<1>3. FitRecord(pin_state, wrong) /\ wrong \in Nat
  BY <1>1, <1>2, GoodViewFit DEF IInv, TypeOK
<1>4. pin_state.pin_hash \in Pins
  BY <1>2, <1>3 DEF FitRecord, IsSet, PersistentPinState
<1>5. CASE pin_state.force_pin_change
  BY <1>1, <1>5, RefuseKeeps DEF GrantPersistentToken
<1>6. CASE ~pin_state.force_pin_change
  <2>1. /\ new \in PersistentPinState
        /\ new.pin_hash = pin_state.pin_hash
        /\ new.pin_retries = pin_state.pin_retries
        /\ new.force_pin_change = pin_state.force_pin_change
        /\ new.min_pin_length = pin_state.min_pin_length
        /\ new.pin_complexity_policy = pin_state.pin_complexity_policy
    BY <1>2, <1>4 DEF PersistentPinState, Slots
  <2>2. new.persistent_tokens =
          [pin_state.persistent_tokens EXCEPT ![req.protocol] = pin_state.pin_hash]
    BY <1>2 DEF PersistentPinState
  <2>3. /\ Save(new, stored_pin_state, o)
        /\ pin_state' = IF Published(o) THEN new ELSE pin_state
        /\ Reply
        /\ UNCHANGED <<stored_pin_state, consecutive_mismatches, token, history>>
    BY <1>6 DEF GrantPersistentToken
  <2>4. w \in Views /\ w.live = new /\ w.stored = stored_pin_state /\ w.token = token
    BY <1>1, <2>1 DEF Views
  <2> HIDE DEF new, w
  <2>5. GrantsBound(new)
    BY <1>2, <1>3, <1>6, <2>1, <2>2 DEF GrantsBound, FitRecord, PersistentPinState
  <2>6. FitRecord(new, wrong) /\ IsSet(new)
    BY <1>2, <1>3, <2>1, <2>5 DEF FitRecord, HonoursPolicy, MeetsPolicy, IsSet
  <2>7. TokenBound(w.token, w.stored, w.live)
    BY <1>1, <2>1, <2>4 DEF GoodView, TokenBound
  <2>8. Adopt(IF Published(o) THEN w ELSE View)
    BY <1>1, <2>3, <2>4 DEF Adopt
  <2>9. QED
    BY <1>1, <2>3, <2>4, <2>6, <2>7, <2>8, SettingKeeps
<1>7. QED
  BY <1>5, <1>6

\* A command that only rereads the authority keeps the invariant.
LEMMA RefreshAuthorityKeeps ==
    ASSUME IInv, NEW io \in BOOLEAN, RefreshAuthority(io)
    PROVE  IInv'
BY ViewIsGood, RefreshGood, RefuseKeeps DEF RefreshAuthority

-----------------------------------------------------------------------------
(* authenticatorConfig and sealing *)

\* toggleAlwaysUv keeps the invariant.
LEMMA ToggleKeeps ==
    ASSUME IInv, NEW io \in BOOLEAN, NEW o \in Outcomes, ToggleAlwaysUv(io, o)
    PROVE  IInv'
<1> DEFINE v == Refresh(View, io)
           new == [v.live EXCEPT !.always_uv = ~v.live.always_uv]
           w == [v EXCEPT !.live = new]
<1>1. GoodView(v)
  BY ViewIsGood, RefreshGood DEF ToggleAlwaysUv
<1>2. Refuse(v) \/
      (/\ Save(new, v.stored, o)
       /\ Adopt(IF Published(o) THEN w ELSE v)
       /\ Reply
       /\ UNCHANGED <<consecutive_mismatches, history>>)
  BY DEF ToggleAlwaysUv
<1> HIDE DEF v
<1>3. /\ new \in PersistentPinState
      /\ new.pin_hash = v.live.pin_hash
      /\ new.pin_retries = v.live.pin_retries
      /\ new.force_pin_change = v.live.force_pin_change
      /\ new.persistent_tokens = v.live.persistent_tokens
      /\ new.min_pin_length = v.live.min_pin_length
      /\ new.pin_complexity_policy = v.live.pin_complexity_policy
  BY <1>1 DEF GoodView, Views, PersistentPinState
<1>4. w \in Views /\ w.live = new /\ w.stored = v.stored /\ w.token = v.token
  BY <1>1, <1>3 DEF GoodView, Views
<1> HIDE DEF new, w
<1>5. v.stored = "Read" => FitRecord(new, wrong)
  BY <1>1, <1>3, GoodViewFit DEF FitRecord, GrantsBound, HonoursPolicy, MeetsPolicy
<1>6. TokenBound(w.token, w.stored, w.live) /\ (IsSet(v.live) => IsSet(new))
  BY <1>1, <1>3, <1>4 DEF GoodView, TokenBound, IsSet
<1>7. QED
  BY <1>1, <1>2, <1>4, <1>5, <1>6, RefuseKeeps, SettingKeeps

\* The record set_min_pin_length writes keeps the PIN and honours the policy it
\* tightens.
LEMMA MinPinLengthFit ==
    ASSUME NEW p \in PersistentPinState, NEW m \in Nat, p.min_pin_length <= m,
           NEW force \in BOOLEAN, NEW complexity \in BOOLEAN
    PROVE  LET new == WithMinPinLength(p, m, force, complexity) IN
           /\ new \in PersistentPinState
           /\ new.pin_hash = p.pin_hash
           /\ p.force_pin_change => new.force_pin_change
           /\ \A w \in Nat : FitRecord(p, w) => FitRecord(new, w)
<1> DEFINE forced == \/ p.force_pin_change
                     \/ force
                     \/ complexity /\ ~p.pin_complexity_policy /\ IsSet(p)
                     \/ p.pin_hash \in Pins /\ PinLength[p.pin_hash] < m
           t == IF forced THEN RotatedTokens ELSE p.persistent_tokens
           c == p.pin_complexity_policy \/ complexity
           new == WithMinPinLength(p, m, force, complexity)
<1>1. forced \in BOOLEAN /\ c \in BOOLEAN
  BY DEF PersistentPinState
<1>2. t \in [Protocols -> Slots]
  BY DEF RotatedTokens, Slots, PersistentPinState
<1>3. new = [p EXCEPT !.min_pin_length = m, !.pin_complexity_policy = c,
                      !.force_pin_change = forced, !.persistent_tokens = t]
  BY DEF WithMinPinLength
<1>4. /\ forced => \A q \in Protocols : t[q] = "revoked"
      /\ ~forced => t = p.persistent_tokens /\ ~p.force_pin_change
      /\ ~forced /\ p.pin_hash \in Pins => ~(PinLength[p.pin_hash] < m)
      /\ ~forced /\ IsSet(p) /\ c => p.pin_complexity_policy
  BY DEF RotatedTokens
<1>5. p.force_pin_change => forced
  OBVIOUS
<1> HIDE DEF new, t, forced, c
<1>6. /\ new \in PersistentPinState
      /\ new.pin_hash = p.pin_hash
      /\ new.pin_retries = p.pin_retries
      /\ new.min_pin_length = m
      /\ new.persistent_tokens = t
  BY <1>1, <1>2, <1>3 DEF PersistentPinState
<1>7. new.pin_complexity_policy = c /\ new.force_pin_change = forced
  BY <1>1, <1>3 DEF PersistentPinState
<1>8. ASSUME NEW w \in Nat, FitRecord(p, w)
      PROVE  FitRecord(new, w)
  <2>1. GrantsBound(new)
    BY <1>4, <1>6, <1>7, <1>8, PinsAssumption DEF FitRecord, GrantsBound
  <2>2. HonoursPolicy(new)
    <3>1. SUFFICES ASSUME p.pin_hash \in Pins, ~forced
                   PROVE  MeetsPolicy(p.pin_hash, new)
      BY <1>6, <1>7 DEF HonoursPolicy
    <3>2. MeetsPolicy(p.pin_hash, p)
      BY <1>4, <1>8, <3>1 DEF FitRecord, HonoursPolicy
    <3>3. PinLength[p.pin_hash] >= m
      BY <1>4, <3>1, PinsAssumption
    <3>4. c => p.pin_hash \in ComplexPins
      BY <1>4, <3>1, <3>2, PinsAssumption DEF MeetsPolicy, IsSet
    <3>5. QED
      BY <1>6, <1>7, <3>3, <3>4 DEF MeetsPolicy
  <2>3. QED
    BY <1>6, <1>8, <2>1, <2>2 DEF FitRecord
<1>9. QED
  BY <1>5, <1>6, <1>7, <1>8 DEF new

\* setMinPINLength keeps the invariant.
LEMMA SetMinPinLengthKeeps ==
    ASSUME IInv, NEW m \in MinLengths, NEW force \in BOOLEAN, NEW complexity \in BOOLEAN,
           NEW io \in BOOLEAN, NEW o \in Outcomes,
           SetMinPinLength(m, force, complexity, io, o)
    PROVE  IInv'
<1> DEFINE v == Refresh(View, io)
           new == WithMinPinLength(v.live, m, force, complexity)
           w == [v EXCEPT !.live = new,
                          !.token = IF new.force_pin_change THEN NoToken ELSE v.token]
<1>1. GoodView(v)
  BY ViewIsGood, RefreshGood DEF SetMinPinLength
<1>2. Refuse(v) \/
      (/\ ~(m < v.live.min_pin_length)
       /\ Save(new, v.stored, o)
       /\ Adopt(IF Published(o) THEN w ELSE v)
       /\ Reply
       /\ UNCHANGED <<consecutive_mismatches, history>>)
  BY DEF SetMinPinLength
<1> HIDE DEF v
<1>3. CASE Refuse(v)
  BY <1>1, <1>3, RefuseKeeps
<1>4. CASE ~Refuse(v)
  <2>1. v.live \in PersistentPinState /\ m \in Nat /\ v.live.min_pin_length <= m
    BY <1>1, <1>2, <1>4, LimitsAssumption DEF GoodView, Views, PersistentPinState
  <2>2. /\ new \in PersistentPinState
        /\ new.pin_hash = v.live.pin_hash
        /\ v.live.force_pin_change => new.force_pin_change
        /\ \A n \in Nat : FitRecord(v.live, n) => FitRecord(new, n)
    BY <2>1, MinPinLengthFit
  <2> HIDE DEF new
  <2>3. /\ w \in Views /\ w.live = new /\ w.stored = v.stored
        /\ w.token = IF new.force_pin_change THEN NoToken ELSE v.token
    BY <1>1, <2>2, DefaultFit DEF GoodView, Views
  <2> HIDE DEF w
  <2>4. v.stored = "Read" => FitRecord(new, wrong)
    BY <1>1, <2>2, GoodViewFit DEF IInv, TypeOK
  <2>5. TokenBound(w.token, w.stored, w.live)
    BY <1>1, <2>2, <2>3 DEF GoodView, TokenBound
  <2>6. IsSet(v.live) => IsSet(new)
    BY <2>2 DEF IsSet
  <2>7. QED
    BY <1>1, <1>2, <1>4, <2>3, <2>4, <2>5, <2>6, SettingKeeps
<1>5. QED
  BY <1>3, <1>4

\* Sealing a credential ID, which writes the default record if there is none,
\* keeps the invariant.
LEMMA SealKeeps ==
    ASSUME IInv, NEW io \in BOOLEAN, NEW o \in Outcomes, SealCredentialId(io, o)
    PROVE  IInv'
<1> DEFINE v == ReadIfUnread(View, io)
<1>1. GoodView(v)
  BY ViewIsGood, RefreshGood DEF SealCredentialId
<1>2. \/ Refuse(v)
      \/ /\ ~v.live.always_uv /\ key # 0 /\ v.ok
         /\ Save(DefaultPinState, "Read", o) /\ Adopt(v) /\ Reply
         /\ UNCHANGED <<consecutive_mismatches, history>>
  BY DEF SealCredentialId
<1>3. file = Missing /\ phase = "idle"
  BY DEF SealCredentialId
<1>4. CASE Refuse(v)
  BY <1>1, <1>4, RefuseKeeps
<1>5. CASE ~Refuse(v)
  <2>1. v.stored = "Read" /\ v.live = DefaultPinState
    BY <1>1, <1>2, <1>3, <1>5 DEF GoodView, Views, Loaded, Missing
  <2>2. FitRecord(DefaultPinState, wrong)
    BY <1>1, <2>1, GoodViewFit
  <2>3. Adopt(IF Published(o) THEN v ELSE v)
    BY <1>2, <1>5
  <2>4. v \in Views /\ TokenBound(v.token, v.stored, v.live)
    BY <1>1 DEF GoodView
  <2> HIDE DEF v
  <2>5. QED
    BY <1>1, <1>2, <1>5, <2>1, <2>2, <2>3, <2>4, SettingKeeps
<1>6. QED
  BY <1>4, <1>5

-----------------------------------------------------------------------------
(* Reset *)

\* What a failed reset rereads is a good view again, whatever it published.
LEMMA ReconciledGood ==
    ASSUME IInv, phase \in {"idle", "reconcile"}, NEW io \in BOOLEAN
    PROVE  GoodView(Reconciled(Refresh(View, io)))
<1> DEFINE v == Refresh(View, io)
<1>1. /\ View \in Views /\ View.live = pin_state /\ View.stored = stored_pin_state
      /\ View.token = token /\ View.ok = TRUE
  BY DEF View, Views, IInv, TypeOK
<1>2. CASE stored_pin_state = "Read" /\ io
  <2>1. Refresh(View, io) = Failed(View)
    BY <1>1, <1>2 DEF Refresh, RefreshRead
  <2>2. ~Failed(View).ok /\ Failed(View).stored = "Read" /\ Failed(View) \in Views
    BY <1>1, <1>2 DEF Failed, Views
  <2>3. UnreadablePinState.always_uv = TRUE
    BY DEF UnreadablePinState, DefaultPinState
  <2>4. QED
    BY <2>1, <2>2, <2>3, DefaultFit DEF Reconciled, GoodView, Views, TokenBound
<1>3. CASE ~(stored_pin_state = "Read" /\ io) /\ phase = "idle"
  <2>1. GoodView(v)
    BY <1>3, ViewIsGood, RefreshGood
  <2>2. v.stored = "Read" => v.ok
    BY <1>1, <1>3 DEF Refresh, RefreshRead, ReadUnread, Failed, Views
  <2>3. QED
    BY <2>1, <2>2 DEF Reconciled
<1>4. CASE ~(stored_pin_state = "Read" /\ io) /\ phase = "reconcile"
  <2>1. key # 0 /\ file.key # key
    BY <1>4 DEF IInv, Agreement
  <2>2. CASE stored_pin_state = "Read"
    <3>1. pin_state = file.record /\ Loaded(file) = file.record
      BY <2>2, StoredIsFit DEF IInv, Agreement
    <3>2. CASE /\ file.key = 0 /\ ~IsSet(pin_state)
               /\ \A p \in Protocols : pin_state.persistent_tokens[p] = "none"
      <4>1. v = View
        BY <1>1, <1>4, <2>1, <2>2, <3>2 DEF Refresh, RefreshRead
      <4>2. GoodView(View)
        BY <1>1, <2>1, <2>2, <3>1, <3>2 DEF GoodView, Corrupt, IInv
      <4>3. QED
        BY <1>1, <4>1, <4>2 DEF Reconciled
    <3>3. CASE ~(/\ file.key = 0 /\ ~IsSet(pin_state)
                 /\ \A p \in Protocols : pin_state.persistent_tokens[p] = "none")
      <4> DEFINE c == [View EXCEPT !.live = Closed(pin_state), !.stored = "Unreadable",
                                   !.token = NoToken]
      <4>1. v = Failed(c)
        BY <1>1, <1>4, <2>1, <2>2, <3>3 DEF Refresh, RefreshRead
      <4>2. Closed(pin_state) \in PersistentPinState
        BY ClosedTyped DEF IInv, TypeOK
      <4>3. Closed(pin_state).always_uv = TRUE
        BY DEF Closed, IInv, TypeOK, PersistentPinState
      <4>4. /\ Failed(c) \in Views /\ Failed(c).stored = "Unreadable"
            /\ Failed(c).live = Closed(pin_state) /\ Failed(c).token = NoToken
        BY <1>1, <4>2, DefaultFit DEF Failed, Views
      <4>5. GoodView(Failed(c))
        BY <4>3, <4>4 DEF GoodView, TokenBound
      <4>6. QED
        BY <4>1, <4>4, <4>5 DEF Reconciled
    <3>4. QED
      BY <3>2, <3>3
  <2>3. CASE stored_pin_state # "Read"
    <3>1. GoodView(View)
      BY <1>1, <2>3 DEF GoodView, IInv, Agreement
    <3>2. GoodView(v)
      BY <3>1, RefreshGood
    <3>3. v.stored = "Read" => v.ok
      BY <1>1, <2>3 DEF Refresh, ReadUnread, Failed, Views
    <3>4. QED
      BY <3>2, <3>3 DEF Reconciled
  <2>4. QED
    BY <2>2, <2>3
<1>5. QED
  BY <1>2, <1>3, <1>4

\* The end of a failed reset keeps the invariant.
LEMMA FailResetKeeps ==
    ASSUME IInv, phase \in {"idle", "reconcile"}, NEW io \in BOOLEAN,
           FailReset(io), UNCHANGED disk
    PROVE  IInv'
<1>1. Refuse(Reconciled(Refresh(View, io)))
  BY DEF FailReset, Refuse
<1>2. QED
  BY <1>1, ReconciledGood, RefuseKeeps

\* The rotation of the credential key keeps the invariant: no durable PIN is
\* under the new key.
LEMMA RotateKeeps ==
    ASSUME IInv, NEW k \in 1..MaxKey, NEW flushed \in BOOLEAN, NEW zeroed \in BOOLEAN,
           Rotate(k, flushed, zeroed)
    PROVE  IInv'
<1>1. /\ phase = "idle" /\ key' = k /\ phase' \in {"purge", "reconcile"}
      /\ k \notin pinned /\ k \notin keyImages /\ \A f \in images : f.key # k
      /\ pin_state' = pin_state /\ stored_pin_state' = stored_pin_state
      /\ consecutive_mismatches' = consecutive_mismatches /\ token' = token
      /\ req' = req /\ file' = file /\ images' = images
      /\ flush_supported' = flush_supported /\ wrong' = wrong /\ pinned' = pinned
  BY DEF Rotate, FreshKey, engine, history
<1>2. keyImages' \subseteq keyImages \cup {0, k} /\ k \in keyImages'
  BY DEF Rotate
<1>3. k \in 0..MaxKey /\ 0 \in 0..MaxKey /\ k # 0 /\ 0 \notin 1..MaxKey
  BY LimitsAssumption
<1>4. TypeOK'
  BY <1>1, <1>2, <1>3 DEF IInv, TypeOK, Phases
<1>5. \A f \in images' : FitFile(f, wrong')
  BY <1>1 DEF IInv
<1>6. Agreement(pin_state, stored_pin_state, phase, file, key)'
  BY <1>1, <1>3 DEF IInv, TypeOK, Agreement
<1>7. ProtectionPersists'
  BY <1>1, <1>2, <1>3 DEF IInv, TypeOK, ProtectionPersists
<1>8. TokenBound(token', stored_pin_state', pin_state') /\ Attempt'
  BY <1>1 DEF IInv, Attempt
<1>9. QED
  BY <1>4, <1>5, <1>6, <1>7, <1>8 DEF IInv

\* The purge of a reset keeps the invariant.
LEMMA PurgeKeeps ==
    ASSUME IInv, NEW ok \in BOOLEAN, Purge(ok)
    PROVE  IInv'
<1>1. phase = "purge" /\ phase' \in {"defaults", "reconcile"} /\ UNCHANGED <<engine, req, disk, history>>
  BY DEF Purge
<1>2. TypeOK'
  BY <1>1 DEF IInv, TypeOK, Phases, engine, disk, history
<1>3. \A f \in images' : FitFile(f, wrong')
  BY <1>1 DEF IInv, disk, history
<1>4. Agreement(pin_state, stored_pin_state, phase, file, key)'
  BY <1>1 DEF IInv, Agreement, engine, disk, history
<1>5. ProtectionPersists' /\ TokenBound(token', stored_pin_state', pin_state') /\ Attempt'
  BY <1>1 DEF IInv, ProtectionPersists, Attempt, engine, disk, history
<1>6. QED
  BY <1>2, <1>3, <1>4, <1>5 DEF IInv

\* The write of the default record that ends a reset keeps the invariant.
LEMMA PublishDefaultsKeeps ==
    ASSUME IInv, NEW o \in Outcomes, PublishDefaults(o)
    PROVE  IInv'
<1>1. /\ phase = "defaults" /\ Save(DefaultPinState, "Read", o) /\ pinned' = pinned
  BY DEF PublishDefaults
<1>2. TypeOK /\ ProtectionPersists /\ key # 0 /\ file.key # key /\ key \notin pinned
  BY <1>1 DEF IInv, Agreement
<1>3. /\ key' = key /\ keyImages' = keyImages /\ flush_supported' = flush_supported
      /\ file' \in Files /\ images' \subseteq Files /\ file' \in images'
      /\ o = "Err" => file' = file /\ images' = images
      /\ Published(o) => file' = [key |-> key, record |-> DefaultPinState]
  BY <1>1, <1>2, DefaultFit, SaveEffect
<1>4. ProtectionPersists'
  BY <1>1, <1>2, DefaultFit, SaveProtects
<1>5. CASE Published(o)
  <2>1. /\ pin_state' = DefaultPinState /\ stored_pin_state' = "Read"
        /\ consecutive_mismatches' = 0 /\ token' = NoToken /\ wrong' = 0
        /\ phase' = "idle" /\ req' = NoRequest
    BY <1>5 DEF PublishDefaults, Reply
  <2>2. TypeOK'
    BY <1>1, <1>2, <1>3, <2>1, DefaultFit, LimitsAssumption DEF TypeOK, Phases
  <2>3. \A f \in images : FitFile(f, 0)
    BY FitWeaken DEF IInv, TypeOK, FitFile
  <2>4. \A f \in images' : FitFile(f, wrong')
    BY <1>1, <1>2, <2>1, <2>3, DefaultFit, SaveFit
  <2>5. Agreement(pin_state, stored_pin_state, phase, file, key)'
    BY <1>2, <1>3, <1>5, <2>1 DEF Agreement, Loaded, Corrupt
  <2>6. TokenBound(token', stored_pin_state', pin_state') /\ Attempt'
    BY <2>1 DEF TokenBound, Attempt
  <2>7. QED
    BY <1>4, <2>2, <2>4, <2>5, <2>6 DEF IInv
<1>6. CASE ~Published(o)
  <2>1. /\ phase' = "reconcile" /\ UNCHANGED <<engine, req, wrong, file, images>>
    BY <1>3, <1>6 DEF PublishDefaults, Published
  <2>2. TypeOK'
    BY <1>1, <1>2, <1>3, <2>1 DEF TypeOK, Phases, engine
  <2>3. \A f \in images' : FitFile(f, wrong')
    BY <2>1 DEF IInv
  <2>4. Agreement(pin_state, stored_pin_state, phase, file, key)'
    BY <1>1, <1>2, <1>3, <2>1 DEF IInv, Agreement, engine
  <2>5. TokenBound(token', stored_pin_state', pin_state') /\ Attempt'
    BY <2>1 DEF IInv, Attempt, engine
  <2>6. QED
    BY <1>4, <2>2, <2>3, <2>4, <2>5 DEF IInv
<1>7. QED
  BY <1>5, <1>6

-----------------------------------------------------------------------------
(* Restart *)

\* A restart on any files power loss may leave keeps the invariant.
LEMMA BootKeeps ==
    ASSUME IInv, NEW k \in keyImages, NEW f \in images, NEW io \in BOOLEAN,
           Boot(k, f, io),
           key' = k, file' = f, f \in images', k \in keyImages',
           images' \subseteq images, keyImages' \subseteq keyImages,
           flush_supported' = flush_supported, wrong' = wrong, pinned' = pinned
    PROVE  IInv'
<1>1. /\ consecutive_mismatches' = 0 /\ token' = NoToken
      /\ phase' = "idle" /\ req' = NoRequest
      /\ pin_state' = IF io \/ Corrupt(f, k) THEN UnreadablePinState ELSE Loaded(f)
      /\ stored_pin_state' =
            IF io THEN "Unread" ELSE IF Corrupt(f, k) THEN "Unreadable" ELSE "Read"
  BY DEF Boot, Reply
<1>2. FitFile(f, wrong) /\ Loaded(f) = f.record /\ Loaded(f) \in PersistentPinState
  BY DEF IInv, FitFile, FitRecord, Loaded, Missing
<1>3. TypeOK'
  BY <1>1, <1>2, DefaultFit, LimitsAssumption DEF IInv, TypeOK, Phases
<1>4. \A g \in images' : FitFile(g, wrong')
  BY DEF IInv
<1>5. Agreement(pin_state, stored_pin_state, phase, file, key)'
  <2>1. UnreadablePinState.always_uv = TRUE
    BY DEF UnreadablePinState, DefaultPinState
  <2>2. QED
    BY <1>1, <2>1 DEF Agreement
<1>6. ProtectionPersists'
  BY DEF IInv, ProtectionPersists
<1>7. TokenBound(token', stored_pin_state', pin_state') /\ Attempt'
  BY <1>1 DEF TokenBound, Attempt
<1>8. QED
  BY <1>3, <1>4, <1>5, <1>6, <1>7 DEF IInv

-----------------------------------------------------------------------------
(* The theorems *)

\* The invariant holds in every initial state.
LEMMA InitInvariant == Init => IInv
<1> SUFFICES ASSUME Init PROVE IInv
  OBVIOUS
<1>1. /\ key = 1 /\ keyImages = {1} /\ images = {file}
      /\ stored_pin_state = "Read" /\ consecutive_mismatches = 0 /\ token = NoToken
      /\ phase = "idle" /\ req = NoRequest /\ wrong = 0
      /\ flush_supported \in BOOLEAN
      /\ pin_state = Loaded(file)
      /\ pinned = IF IsSet(file.record) THEN {1} ELSE {}
  BY DEF Init
<1>2. 1 \in 1..MaxKey /\ 1 \in 0..MaxKey
  BY LimitsAssumption
<1>3. FitFile(file, 0) /\ file \in Files /\ file.key \in {0, 1} /\ (file.key = 0 => file = Missing)
  <2>1. CASE file = Missing
    BY <2>1, DefaultFit DEF FitFile, Missing
  <2>2. CASE file # Missing
    <3>1. PICK p \in Pins : /\ PinLength[p] >= DEFAULT_MIN_PIN_LENGTH
                            /\ file = [key |-> 1, record |-> [DefaultPinState EXCEPT !.pin_hash = p]]
      BY <2>2 DEF Init, InitialFiles
    <3> DEFINE r == [DefaultPinState EXCEPT !.pin_hash = p]
    <3>2. /\ r \in PersistentPinState /\ r.pin_hash = p
          /\ r.pin_retries = DefaultPinState.pin_retries
          /\ r.min_pin_length = DefaultPinState.min_pin_length
          /\ r.pin_complexity_policy = DefaultPinState.pin_complexity_policy
          /\ r.persistent_tokens = DefaultPinState.persistent_tokens
      BY DefaultFit DEF PersistentPinState
    <3>3. /\ DefaultPinState.pin_retries = MAX_PIN_RETRIES
          /\ DefaultPinState.min_pin_length = DEFAULT_MIN_PIN_LENGTH
          /\ DefaultPinState.pin_complexity_policy = FALSE
          /\ \A q \in Protocols : DefaultPinState.persistent_tokens[q] = "none"
      BY DEF DefaultPinState
    <3>4. file.record = r /\ file.key = 1
      BY <3>1
    <3> HIDE DEF r
    <3>5. FitRecord(r, 0)
      BY <3>1, <3>2, <3>3, PinsAssumption, LimitsAssumption
         DEF FitRecord, GrantsBound, HonoursPolicy, MeetsPolicy
    <3>6. file \in Files
      BY <1>2, <3>1, <3>2 DEF Files, r
    <3>7. QED
      BY <3>4, <3>5, <3>6 DEF FitFile
  <2>3. QED
    BY <2>1, <2>2
<1>4. Loaded(file) \in PersistentPinState /\ ~Corrupt(file, 1)
  BY <1>3 DEF Loaded, Missing, Corrupt, FitFile, FitRecord
<1>5. TypeOK
  BY <1>1, <1>2, <1>3, <1>4, DefaultFit, LimitsAssumption DEF TypeOK, Phases
<1>6. Agreement(pin_state, stored_pin_state, phase, file, key)
  BY <1>1, <1>4 DEF Agreement
<1>7. ProtectionPersists
  BY <1>1, <1>3 DEF ProtectionPersists, Missing, IsSet, DefaultPinState
<1>8. TokenBound(token, stored_pin_state, pin_state) /\ Attempt
  BY <1>1 DEF TokenBound, Attempt
<1>9. QED
  BY <1>1, <1>3, <1>5, <1>6, <1>7, <1>8 DEF IInv

\* Every step keeps the invariant, by the lemma of its action.
LEMMA NextInvariant == IInv /\ [Next]_vars => IInv'
<1> SUFFICES ASSUME IInv, [Next]_vars PROVE IInv'
  OBVIOUS
<1> USE IoErrorsBoolean
<1>1. CASE \E r \in PinRequests, io1 \in IoErrors, io2 \in IoErrors, o \in Outcomes :
             BeginAttempt(r, io1, io2, o)
  BY <1>1, BeginAttemptKeeps
<1>2. CASE \E o \in Outcomes : Mismatch(o)
  BY <1>2, MismatchKeeps
<1>3. CASE \E o \in Outcomes : Match(o)
  BY <1>3, MatchKeeps
<1>4. CASE \E n \in Pins, io \in IoErrors, o \in Outcomes : SetPin(n, io, o)
  BY <1>4, SetPinKeeps
<1>5. CASE \E o \in Outcomes : ChangePin(o)
  BY <1>5, ChangePinKeeps
<1>6. CASE IssueToken
  BY <1>6, IssueTokenKeeps
<1>7. CASE \E o \in Outcomes : GrantPersistentToken(o)
  BY <1>7, GrantKeeps
<1>8. CASE TokenExpires
  BY <1>8, TokenExpiresKeeps
<1>9. CASE ConsumeToken
  BY <1>9, ConsumeTokenKeeps
<1>10. CASE \E io \in IoErrors : RefreshAuthority(io)
  BY <1>10, RefreshAuthorityKeeps
<1>11. CASE \E io \in IoErrors, o \in Outcomes : ToggleAlwaysUv(io, o)
  BY <1>11, ToggleKeeps
<1>12. CASE \E m \in MinLengths, force \in BOOLEAN, complexity \in BOOLEAN,
               io \in IoErrors, o \in Outcomes : SetMinPinLength(m, force, complexity, io, o)
  BY <1>12, SetMinPinLengthKeeps
<1>13. CASE \E io \in IoErrors, o \in Outcomes : SealCredentialId(io, o)
  BY <1>13, SealKeeps
<1>14. CASE \E io \in IoErrors : RotateFails(io)
  BY <1>14, FailResetKeeps DEF RotateFails
<1>15. CASE \E k \in 1..MaxKey, flushed \in BOOLEAN, zeroed \in BOOLEAN : Rotate(k, flushed, zeroed)
  BY <1>15, RotateKeeps
<1>16. CASE \E io \in IoErrors : ReconcileAfterRotate(io)
  BY <1>16, FailResetKeeps DEF ReconcileAfterRotate
<1>17. CASE \E ok \in BOOLEAN : Purge(ok)
  BY <1>17, PurgeKeeps
<1>18. CASE \E o \in Outcomes : PublishDefaults(o)
  BY <1>18, PublishDefaultsKeeps
<1>19. CASE \E io \in IoErrors : ProcessRestart(io)
  BY <1>19, BootKeeps DEF ProcessRestart, disk, history, IInv, TypeOK
<1>20. CASE \E k \in keyImages, f \in images, io \in IoErrors : PowerLoss(k, f, io)
  BY <1>20, BootKeeps DEF PowerLoss, history
<1>21. CASE UNCHANGED vars
  <2>1. UNCHANGED <<pin_state, stored_pin_state, consecutive_mismatches, token, phase, req,
                    key, keyImages, file, images, flush_supported, wrong, pinned>>
    BY <1>21 DEF vars, engine, disk, history
  <2>2. TypeOK' /\ (\A f \in images' : FitFile(f, wrong'))
    BY <2>1 DEF IInv, TypeOK
  <2>3. Agreement(pin_state, stored_pin_state, phase, file, key)' /\ ProtectionPersists'
    BY <2>1 DEF IInv, Agreement, ProtectionPersists
  <2>4. TokenBound(token', stored_pin_state', pin_state') /\ Attempt'
    BY <2>1 DEF IInv, Attempt
  <2>5. QED
    BY <2>2, <2>3, <2>4 DEF IInv
<1>22. QED
  BY <1>1, <1>2, <1>3, <1>4, <1>5, <1>6, <1>7, <1>8, <1>9, <1>10, <1>11, <1>12, <1>13, <1>14,
     <1>15, <1>16, <1>17, <1>18, <1>19, <1>20, <1>21 DEF Next

\* The inductive invariant holds throughout.
THEOREM Invariance == Spec => []IInv
BY InitInvariant, NextInvariant, PTL DEF Spec

\* Every variable keeps its type, and the files a running engine sees are among
\* those power loss may leave (PersistentPinState, StoredPinState, replace_pin_state).
THEOREM TypeCorrect == Spec => []TypeOK
<1>1. IInv => TypeOK
  BY DEF IInv
<1>2. QED
  BY <1>1, Invariance, PTL

\* verify_pin_hash_enc never compares more than MAX_PIN_RETRIES wrong PINs in a
\* row, across any number of crashes, failed writes and power losses.
THEOREM GuessBound == Spec => []GuessesBounded
<1>1. IInv => GuessesBounded
  <2>1. SUFFICES ASSUME IInv PROVE wrong <= MAX_PIN_RETRIES
    BY DEF GuessesBounded
  <2>2. wrong \in Nat /\ FitRecord(file.record, wrong)
    BY <2>1, StoredIsFit DEF IInv, TypeOK
  <2>3. QED
    BY <2>2, LimitsAssumption DEF FitRecord, PersistentPinState
<1>2. QED
  BY <1>1, Invariance, PTL

\* The engine answers from the stored authority whenever it says it has read it
\* (refresh_persistent_authority, save_pin_state, reconcile_persistent_authority).
THEOREM LiveAgreement == Spec => []LiveMatchesStored
<1>1. IInv => LiveMatchesStored
  BY DEF IInv, Agreement, LiveMatchesStored
<1>2. QED
  BY <1>1, Invariance, PTL

\* No power loss during FileStore::clear, or after it, brings back a credential
\* key together with an authority that lost the PIN stored under it.
THEOREM Protection == Spec => []ProtectionPersists
<1>1. IInv => ProtectionPersists
  BY DEF IInv
<1>2. QED
  BY <1>1, Invariance, PTL

\* Tokens and persistent grants live no longer than the PIN that earned them
\* (store_new_pin, set_min_pin_length, handle_reset).
THEOREM TokenBinding == Spec => []TokensBoundToPin
<1>1. IInv => TokensBoundToPin
  BY DEF IInv, TokensBoundToPin, FitFile, FitRecord
<1>2. QED
  BY <1>1, Invariance, PTL

\* A stored PIN meets the stored policy unless its change is due
\* (set_min_pin_length, decode_new_pin).
THEOREM PolicyCompliance == Spec => []PolicyHonoured
<1>1. IInv => PolicyHonoured
  BY DEF IInv, PolicyHonoured, FitFile, FitRecord
<1>2. QED
  BY <1>1, Invariance, PTL

-----------------------------------------------------------------------------
(* What replaces a PIN *)

\* A step that replaces, under the same key, the PIN of a record that is settled.
ReplacesPin ==
    /\ IsSet(file.record)
    /\ file.key = file'.key
    /\ images = {file}
    /\ file'.record.pin_hash # file.record.pin_hash

ProvedPin == phase = "verified" /\ req.op = "changePin" /\ req.pin = file.record.pin_hash

\* A save from a good view that keeps the view's PIN keeps the stored one.
LEMMA SaveKeepsPin ==
    ASSUME IInv, NEW v, GoodView(v), NEW p, NEW o, Save(p, v.stored, o),
           v.stored = "Read" => p.pin_hash = v.live.pin_hash
    PROVE  ~ReplacesPin
<1>1. CASE o = "Err"
  BY <1>1 DEF Save, disk, ReplacesPin
<1>2. CASE o # "Err"
  <2>1. v.stored = "Read" /\ file' = [key |-> key, record |-> p]
    BY <1>2 DEF Save
  <2>2. v.live = file.record
    BY <2>1, StoredIsFit DEF GoodView
  <2>3. QED
    BY <2>1, <2>2 DEF ReplacesPin
<1>3. QED
  BY <1>1, <1>2

\* A refused request replaces nothing.
LEMMA UnchangedKeepsPin == ASSUME UNCHANGED disk PROVE ~ReplacesPin
BY DEF disk, ReplacesPin

\* begin_attempt and finish_attempt write the PIN they read.
LEMMA AttemptKeepsPin ==
    ASSUME IInv
    PROVE  /\ \A r \in PinRequests, io1 \in IoErrors, io2 \in IoErrors, o \in Outcomes :
                 BeginAttempt(r, io1, io2, o) => ~ReplacesPin
           /\ \A o \in Outcomes : Mismatch(o) \/ Match(o) => ~ReplacesPin
<1> USE IoErrorsBoolean
<1>1. ASSUME NEW r \in PinRequests, NEW io1 \in IoErrors, NEW io2 \in IoErrors, NEW o \in Outcomes,
             BeginAttempt(r, io1, io2, o)
      PROVE  ~ReplacesPin
  <2> DEFINE u == ReadIfUnread(View, io1)
             v == IF u.ok /\ CheckAttemptAllowed(u.live) THEN Refresh(u, io2) ELSE Failed(u)
  <2>1. GoodView(u)
    BY <1>1, ViewIsGood, RefreshGood DEF BeginAttempt
  <2>2. GoodView(Refresh(u, io2)) /\ GoodView(Failed(u))
    <3> HIDE DEF u
    <3> QED BY <2>1, RefreshGood DEF GoodView, Views, Failed
  <2>3. GoodView(v)
    BY <2>2
  <2>4. UNCHANGED disk \/ Save(Debited(v.live), v.stored, o)
    BY <1>1 DEF BeginAttempt, Refuse
  <2>5. Debited(v.live).pin_hash = v.live.pin_hash
    <3> HIDE DEF v
    <3> QED BY <2>3 DEF Debited, GoodView, Views, PersistentPinState
  <2> HIDE DEF u, v
  <2>6. QED
    BY <2>3, <2>4, <2>5, SaveKeepsPin, UnchangedKeepsPin
<1>2. ASSUME NEW o \in Outcomes, Mismatch(o) \/ Match(o) PROVE ~ReplacesPin
  <2> DEFINE restored == [pin_state EXCEPT !.pin_retries = MAX_PIN_RETRIES]
  <2>1. GoodView(View) /\ View.stored = stored_pin_state /\ View.live = pin_state
    BY <1>2, ViewIsGood DEF Mismatch, Match, View
  <2>2. restored.pin_hash = pin_state.pin_hash
    BY DEF IInv, TypeOK, PersistentPinState
  <2>3. Save(pin_state, stored_pin_state, o) \/ Save(restored, stored_pin_state, o)
    BY <1>2 DEF Mismatch, Match
  <2> HIDE DEF restored
  <2>4. QED
    BY <2>1, <2>2, <2>3, SaveKeepsPin
<1>3. QED
  BY <1>1, <1>2

\* setPIN writes a PIN only where the stored record has none; changePIN is in
\* the phase that the right PIN was proved for.
LEMMA NewPinIsProved ==
    ASSUME IInv
    PROVE  /\ \A n \in Pins, io \in IoErrors, o \in Outcomes : SetPin(n, io, o) => ~ReplacesPin
           /\ \A o \in Outcomes : ChangePin(o) => (ReplacesPin => ProvedPin)
<1> USE IoErrorsBoolean
<1>1. ASSUME NEW n \in Pins, NEW io \in IoErrors, NEW o \in Outcomes, SetPin(n, io, o)
      PROVE  ~ReplacesPin
  <2> DEFINE v == ReadIfUnread(View, io)
  <2>1. GoodView(v)
    BY <1>1, ViewIsGood, RefreshGood DEF SetPin
  <2>2. UNCHANGED disk \/ (~IsSet(v.live) /\ Save(WithNewPin(v.live, n), v.stored, o))
    BY <1>1 DEF SetPin, Refuse, StoreNewPin
  <2> HIDE DEF v
  <2>3. CASE ~IsSet(v.live) /\ Save(WithNewPin(v.live, n), v.stored, o)
    <3>1. CASE o = "Err"
      BY <2>3, <3>1, UnchangedKeepsPin DEF Save
    <3>2. CASE o # "Err"
      <4>1. v.stored = "Read"
        BY <2>3, <3>2 DEF Save
      <4>2. ~IsSet(file.record)
        BY <2>1, <2>3, <4>1, StoredIsFit DEF GoodView
      <4>3. QED
        BY <4>2 DEF ReplacesPin
    <3>3. QED
      BY <3>1, <3>2
  <2>4. QED
    BY <2>2, <2>3, UnchangedKeepsPin
<1>2. ASSUME NEW o \in Outcomes, ChangePin(o) PROVE ReplacesPin => ProvedPin
  <2>1. phase = "verified" /\ req.op = "changePin"
    BY <1>2 DEF ChangePin
  <2>2. req.pin = pin_state.pin_hash /\ stored_pin_state = "Read"
    BY <2>1 DEF IInv, Attempt
  <2>3. pin_state = file.record
    BY <2>2, StoredIsFit DEF IInv, Agreement
  <2>4. QED
    BY <2>1, <2>2, <2>3 DEF ProvedPin
<1>3. QED
  BY <1>1, <1>2

\* The grant of a persistent token and the settings keep the PIN.
LEMMA SettingKeepsPin ==
    ASSUME IInv
    PROVE  /\ \A o \in Outcomes : GrantPersistentToken(o) => ~ReplacesPin
           /\ \A io \in IoErrors, o \in Outcomes : ToggleAlwaysUv(io, o) => ~ReplacesPin
           /\ \A m \in MinLengths, force \in BOOLEAN, complexity \in BOOLEAN,
                 io \in IoErrors, o \in Outcomes :
                 SetMinPinLength(m, force, complexity, io, o) => ~ReplacesPin
<1> USE IoErrorsBoolean
<1>1. ASSUME NEW o \in Outcomes, GrantPersistentToken(o) PROVE ~ReplacesPin
  <2> DEFINE granted == [pin_state EXCEPT !.persistent_tokens[req.protocol] = pin_state.pin_hash]
  <2>1. GoodView(View) /\ View.stored = stored_pin_state /\ View.live = pin_state
    BY <1>1, ViewIsGood DEF GrantPersistentToken, View
  <2>2. granted.pin_hash = pin_state.pin_hash
    BY DEF IInv, TypeOK, PersistentPinState
  <2>3. UNCHANGED disk \/ Save(granted, stored_pin_state, o)
    BY <1>1 DEF GrantPersistentToken, Refuse
  <2> HIDE DEF granted
  <2>4. QED
    BY <2>1, <2>2, <2>3, SaveKeepsPin, UnchangedKeepsPin
<1>2. ASSUME NEW io \in IoErrors, NEW o \in Outcomes, ToggleAlwaysUv(io, o) PROVE ~ReplacesPin
  <2> DEFINE v == Refresh(View, io)
             new == [v.live EXCEPT !.always_uv = ~@]
  <2>1. GoodView(v)
    BY <1>2, ViewIsGood, RefreshGood DEF ToggleAlwaysUv
  <2>2. UNCHANGED disk \/ Save(new, v.stored, o)
    BY <1>2 DEF ToggleAlwaysUv, Refuse
  <2> HIDE DEF v
  <2>3. new.pin_hash = v.live.pin_hash
    BY <2>1 DEF GoodView, Views, PersistentPinState
  <2> HIDE DEF new
  <2>4. QED
    BY <2>1, <2>2, <2>3, SaveKeepsPin, UnchangedKeepsPin
<1>3. ASSUME NEW m \in MinLengths, NEW force \in BOOLEAN, NEW complexity \in BOOLEAN,
             NEW io \in IoErrors, NEW o \in Outcomes, SetMinPinLength(m, force, complexity, io, o)
      PROVE  ~ReplacesPin
  <2> DEFINE v == Refresh(View, io)
             new == WithMinPinLength(v.live, m, force, complexity)
  <2>1. GoodView(v)
    BY <1>3, ViewIsGood, RefreshGood DEF SetMinPinLength
  <2>2. UNCHANGED disk \/ Save(new, v.stored, o)
    BY <1>3 DEF SetMinPinLength, Refuse
  <2> HIDE DEF v
  <2>3. new.pin_hash = v.live.pin_hash
    BY <2>1 DEF GoodView, Views, PersistentPinState, WithMinPinLength
  <2> HIDE DEF new
  <2>4. QED
    BY <2>1, <2>2, <2>3, SaveKeepsPin, UnchangedKeepsPin
<1>4. QED
  BY <1>1, <1>2, <1>3

\* A reset writes the default record under the new key, sealing only where there
\* is no record, and power loss only finds the record that is settled.
LEMMA StorageKeepsPin ==
    ASSUME IInv
    PROVE  /\ \A io \in IoErrors, o \in Outcomes : SealCredentialId(io, o) => ~ReplacesPin
           /\ \A o \in Outcomes : PublishDefaults(o) => ~ReplacesPin
           /\ \A k \in keyImages, f \in images, io \in IoErrors : PowerLoss(k, f, io) => ~ReplacesPin
<1>1. ASSUME NEW io \in IoErrors, NEW o \in Outcomes, SealCredentialId(io, o) PROVE ~ReplacesPin
  <2>1. ~IsSet(file.record)
    BY <1>1 DEF SealCredentialId, Missing, DefaultPinState, IsSet
  <2>2. QED
    BY <2>1 DEF ReplacesPin
<1>2. ASSUME NEW o \in Outcomes, PublishDefaults(o) PROVE ~ReplacesPin
  <2>1. file.key # key
    BY <1>2 DEF PublishDefaults, IInv, Agreement
  <2>2. file' = file \/ file'.key = key
    BY <1>2 DEF PublishDefaults, Save, disk
  <2>3. QED
    BY <2>1, <2>2 DEF ReplacesPin
<1>3. ASSUME NEW k \in keyImages, NEW f \in images, NEW io \in IoErrors, PowerLoss(k, f, io)
      PROVE  ~ReplacesPin
  BY <1>3 DEF PowerLoss, ReplacesPin
<1>4. QED
  BY <1>1, <1>2, <1>3

\* Of all steps, only that of a changePIN that proved the PIN replaces it.
LEMMA NextReplaces == IInv /\ [Next]_vars => (ReplacesPin => ProvedPin)
<1> SUFFICES ASSUME IInv, [Next]_vars PROVE ReplacesPin => ProvedPin
  OBVIOUS
<1>1. CASE \/ IssueToken \/ TokenExpires \/ ConsumeToken
           \/ \E io \in IoErrors : RefreshAuthority(io)
           \/ \E io \in IoErrors : RotateFails(io)
           \/ \E io \in IoErrors : ReconcileAfterRotate(io)
           \/ \E ok \in BOOLEAN : Purge(ok)
           \/ \E io \in IoErrors : ProcessRestart(io)
           \/ UNCHANGED vars
  <2>1. UNCHANGED disk
    BY <1>1 DEF IssueToken, TokenExpires, ConsumeToken, RefreshAuthority, Refuse, RotateFails,
                ReconcileAfterRotate, Purge, ProcessRestart, vars
  <2>2. QED
    BY <2>1, UnchangedKeepsPin
<1>2. CASE \E k \in 1..MaxKey, flushed \in BOOLEAN, zeroed \in BOOLEAN : Rotate(k, flushed, zeroed)
  BY <1>2 DEF Rotate, ReplacesPin
<1>3. CASE \/ \E r \in PinRequests, io1 \in IoErrors, io2 \in IoErrors, o \in Outcomes :
                 BeginAttempt(r, io1, io2, o)
           \/ \E o \in Outcomes : Mismatch(o)
           \/ \E o \in Outcomes : Match(o)
  BY <1>3, AttemptKeepsPin
<1>4. CASE \/ \E n \in Pins, io \in IoErrors, o \in Outcomes : SetPin(n, io, o)
           \/ \E o \in Outcomes : ChangePin(o)
  BY <1>4, NewPinIsProved
<1>5. CASE \/ \E o \in Outcomes : GrantPersistentToken(o)
           \/ \E io \in IoErrors, o \in Outcomes : ToggleAlwaysUv(io, o)
           \/ \E m \in MinLengths, force \in BOOLEAN, complexity \in BOOLEAN,
                 io \in IoErrors, o \in Outcomes : SetMinPinLength(m, force, complexity, io, o)
  BY <1>5, SettingKeepsPin
<1>6. CASE \/ \E io \in IoErrors, o \in Outcomes : SealCredentialId(io, o)
           \/ \E o \in Outcomes : PublishDefaults(o)
           \/ \E k \in keyImages, f \in images, io \in IoErrors : PowerLoss(k, f, io)
  BY <1>6, StorageKeepsPin
<1>7. QED
  BY <1>1, <1>2, <1>3, <1>4, <1>5, <1>6 DEF Next

\* The stored PIN is replaced only by a changePIN that proved it, or together
\* with the credential key (client_pin_change_pin, set_pin, FileStore::clear).
THEOREM PinChangeIsProved == Spec => ChangeNeedsProof
<1>1. IInv /\ [Next]_vars =>
        [IsSet(file.record) /\ file.key = file'.key /\ images = {file}
             /\ file'.record.pin_hash # file.record.pin_hash
         => phase = "verified" /\ req.op = "changePin" /\ req.pin = file.record.pin_hash]_vars
  BY NextReplaces DEF ReplacesPin, ProvedPin
<1>2. QED
  BY <1>1, Invariance, PTL DEF Spec, ChangeNeedsProof
=============================================================================
