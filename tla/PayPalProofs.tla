---------------------------- MODULE PayPalProofs ----------------------------
(***************************************************************************)
(* Fetches that share a token, for any number of them, any transactions,   *)
(* any faults and any tokens that lapse.                                   *)
(*                                                                         *)
(* That a fetch fails only for a cause rests on what it knows of the token *)
(* once it has refreshed it and nobody has disturbed it: the token in the  *)
(* cache, and then the one in its header, is one that PayPal takes; and on *)
(* that without faults a refresh is the first of its attempts that fails.  *)
(*                                                                         *)
(* That a fetch is exact rests on a count: what it got is, at each page,   *)
(* what the windows before and the pages before in this one list.          *)
(***************************************************************************)
EXTENDS PayPal, FiniteSetTheorems, TLAPS

Places == {"authenticate", "exchange", "send", "await", "clear", "done", "failed"}

\* What a fetch keeps for itself.
ControlOK ==
    /\ pc \in [Fetches -> Places]
    /\ window \in [Fetches -> Nat] /\ page \in [Fetches -> Nat]
    /\ attempt \in [Fetches -> 0 .. MaxRetries] /\ refreshed \in [Fetches -> BOOLEAN]

\* What fetches share, and what they took from it.
TokenOK ==
    /\ issued \in Nat /\ accessToken \in 0 .. issued /\ lapsed \subseteq 1 .. issued
    /\ expired \in BOOLEAN /\ mu \in Fetches \cup {NoFetch}
    /\ header \in [Fetches -> 0 .. issued] /\ got \in [Fetches -> [Txns -> Nat]]
    /\ disturbed \subseteq Fetches /\ faults \in 0 .. MaxFaults

Locked == \A f \in Fetches : pc[f] = "exchange" <=> mu = f

Good(tok) == tok \in 1 .. issued \ lapsed

\* Without faults the attempts of a page are the first and, once the token is
\* refreshed, a second.
FewAttempts(f) ==
    /\ pc[f] \in {"authenticate", "exchange", "clear"} =>
          /\ window[f] # 0 => refreshed[f]
          /\ faults = 0 => attempt[f] = 0
    /\ faults = 0 /\ pc[f] \in {"send", "await"} /\ ~refreshed[f] => attempt[f] = 0

\* What a fetch that has refreshed the token knows of it.
TokenKnown(f) ==
    refreshed[f] /\ f \notin disturbed =>
        /\ pc[f] \in {"authenticate", "exchange"} => accessToken = 0 \/ Good(accessToken)
        /\ pc[f] \in {"send", "await"} => Good(accessToken)
        /\ pc[f] = "await" => Good(header[f])

\* A fetch at its exchange still needs one.
NeedLasts(f) == pc[f] = "exchange" => accessToken = 0 \/ expired

Caused(f) == pc[f] = "failed" => faults > 0 \/ f \in disturbed

FetchInv(f) == FewAttempts(f) /\ TokenKnown(f) /\ NeedLasts(f) /\ Caused(f)

PInv == ControlOK /\ TokenOK /\ Locked /\ \A f \in Fetches : FetchInv(f)

-----------------------------------------------------------------------------
LEMMA TypeParts == ControlOK /\ TokenOK /\ Locked <=> TypeOK
  BY DEF ControlOK, TokenOK, Locked, TypeOK, Places

LEMMA PStarts == ASSUME PayPalAssumption PROVE Init => PInv
  <1>1. SUFFICES ASSUME Init PROVE PInv
    OBVIOUS
  <1>2. MaxRetries \in Nat /\ MaxFaults \in Nat /\ NoFetch \notin Fetches
    BY DEF PayPalAssumption
  <1>3. ControlOK
    BY <1>1, <1>2 DEF Init, ControlOK, Places
  <1>4. TokenOK
    BY <1>1, <1>2 DEF Init, TokenOK
  <1>5. Locked
    BY <1>1, <1>2 DEF Init, Locked
  <1>6. ASSUME NEW f \in Fetches PROVE FetchInv(f)
    BY <1>1, <1>6 DEF Init, FetchInv, FewAttempts, TokenKnown, NeedLasts, Caused
  <1>7. QED
    BY <1>3, <1>4, <1>5, <1>6 DEF PInv

\* Where a fetch goes on, and with which attempts; the others stay.
Moves(f, l, a, ref) ==
    /\ pc' = [pc EXCEPT ![f] = l] /\ attempt' = [attempt EXCEPT ![f] = a]
    /\ refreshed' = [refreshed EXCEPT ![f] = ref]
    /\ \A g \in Fetches \ {f} : window'[g] = window[g]

LEMMA ReadPageMoves ==
    ASSUME ControlOK, PayPalAssumption, NEW f \in Fetches, NEW w \in Nat, NEW p \in Nat,
           ReadPage(f, w, p)
    PROVE  ControlOK' /\ Moves(f, "send", 0, FALSE)
  <1>1. MaxRetries \in Nat \ {0}
    BY DEF PayPalAssumption
  <1>2. QED
    BY <1>1 DEF ControlOK, ReadPage, Goto, Places, Moves

LEMMA NextWindowMoves ==
    ASSUME ControlOK, PayPalAssumption, NEW f \in Fetches, NextWindow(f)
    PROVE  /\ ControlOK'
           /\ Moves(f, "send", 0, FALSE) \/ Moves(f, "done", attempt[f], refreshed[f])
  <1>1. CASE window[f] < Windows(f) /\ ReadPage(f, window[f] + 1, 1)
    <2>1. window[f] + 1 \in Nat
      BY DEF ControlOK
    <2>2. QED
      BY <1>1, <2>1, ReadPageMoves
  <1>2. CASE Goto(f, "done") /\ UNCHANGED <<window, page, attempt, refreshed>>
    BY <1>2 DEF ControlOK, Goto, Places, Moves
  <1>3. QED
    BY <1>1, <1>2 DEF NextWindow

LEMMA FailMoves ==
    ASSUME ControlOK, NEW f \in Fetches, Fail(f)
    PROVE  ControlOK' /\ UNCHANGED place /\ Moves(f, "failed", attempt[f], refreshed[f])
  BY DEF ControlOK, Fail, Goto, Places, Moves, place

LEMMA ContinueMoves ==
    ASSUME ControlOK, PayPalAssumption, NEW f \in Fetches, Continue(f)
    PROVE  /\ ControlOK' /\ UNCHANGED place
           /\ \/ attempt[f] < MaxRetries /\ Moves(f, "send", attempt[f] + 1, refreshed[f])
              \/ attempt[f] = MaxRetries /\ Moves(f, "failed", attempt[f], refreshed[f])
  <1>1. MaxRetries \in Nat \ {0} /\ attempt[f] \in 0 .. MaxRetries
    BY DEF PayPalAssumption, ControlOK
  <1>2. CASE attempt[f] < MaxRetries
    <2>1. /\ pc' = [pc EXCEPT ![f] = "send"] /\ UNCHANGED <<place, refreshed>>
          /\ attempt' = [attempt EXCEPT ![f] = attempt[f] + 1]
      BY <1>2 DEF Continue, Goto
    <2>2. attempt[f] + 1 \in 0 .. MaxRetries
      BY <1>1, <1>2
    <2>3. refreshed' = [refreshed EXCEPT ![f] = refreshed[f]]
      BY <2>1 DEF ControlOK
    <2>4. QED
      BY <1>2, <2>1, <2>2, <2>3 DEF ControlOK, Places, Moves, place
  <1>3. CASE ~ attempt[f] < MaxRetries
    <2>1. attempt[f] = MaxRetries
      BY <1>1, <1>3
    <2>2. QED
      BY <1>3, <2>1, FailMoves DEF Continue
  <1>4. QED
    BY <1>2, <1>3

\* A return of authenticate.
LEMMA AuthenticatedMoves ==
    ASSUME ControlOK, PayPalAssumption, NEW f \in Fetches, Authenticated(f)
    PROVE  /\ ControlOK' /\ UNCHANGED got
           /\ \/ Moves(f, "send", 0, FALSE)
              \/ Moves(f, "done", attempt[f], refreshed[f])
              \/ /\ window[f] # 0 /\ attempt[f] < MaxRetries
                 /\ Moves(f, "send", attempt[f] + 1, refreshed[f])
              \/ /\ window[f] # 0 /\ attempt[f] = MaxRetries
                 /\ Moves(f, "failed", attempt[f], refreshed[f])
  <1>1. CASE window[f] = 0 /\ NextWindow(f) /\ UNCHANGED got
    BY <1>1, NextWindowMoves
  <1>2. CASE window[f] # 0 /\ Continue(f)
    BY <1>2, ContinueMoves DEF place
  <1>3. QED
    BY <1>1, <1>2 DEF Authenticated

\* A step that leaves what a fetch keeps alone, and takes no good token away
\* from it without being noted.
LEMMA OthersKept ==
    ASSUME TokenOK, TokenOK', NEW g \in Fetches, FetchInv(g), NeedLasts(g)',
           pc'[g] = pc[g], attempt'[g] = attempt[g], refreshed'[g] = refreshed[g],
           window'[g] = window[g], header'[g] = header[g],
           g \in disturbed => g \in disturbed', faults' = 0 => faults = 0,
           refreshed[g] /\ g \notin disturbed' =>
              /\ lapsed' = lapsed /\ issued <= issued'
              /\ accessToken' = accessToken \/ Good(accessToken)'
    PROVE  FetchInv(g)'
  <1>1. FewAttempts(g)'
    BY DEF FetchInv, FewAttempts
  <1>2. Caused(g)'
    BY DEF FetchInv, Caused, TokenOK
  <1>3. TokenKnown(g)'
    <2>1. SUFFICES ASSUME refreshed[g], g \notin disturbed' PROVE TokenKnown(g)'
      BY DEF TokenKnown
    <2>2. /\ pc[g] \in {"authenticate", "exchange"} => accessToken = 0 \/ Good(accessToken)
          /\ pc[g] \in {"send", "await"} => Good(accessToken)
          /\ pc[g] = "await" => Good(header[g])
      BY <2>1 DEF FetchInv, TokenKnown
    <2>3. issued \in Nat /\ issued' \in Nat /\ lapsed' = lapsed /\ issued <= issued'
      BY <2>1 DEF TokenOK
    <2>4. \A tok : Good(tok) => tok \in 1 .. issued' \ lapsed'
      BY <2>3 DEF Good
    <2>5. QED
      BY <2>1, <2>2, <2>4 DEF TokenKnown, Good
  <1>4. QED
    BY <1>1, <1>2, <1>3 DEF FetchInv

LEMMA MovesLeave ==
    ASSUME ControlOK, NEW f \in Fetches, NEW l, NEW a, NEW ref, Moves(f, l, a, ref)
    PROVE  /\ pc'[f] = l /\ attempt'[f] = a /\ refreshed'[f] = ref
           /\ \A g \in Fetches \ {f} :
                 /\ pc'[g] = pc[g] /\ attempt'[g] = attempt[g]
                 /\ refreshed'[g] = refreshed[g] /\ window'[g] = window[g]
  BY DEF ControlOK, Moves

\* A move that ends no exchange but, perhaps, the fetch's own.
LEMMA MovesUnlocked ==
    ASSUME ControlOK, Locked, NEW f \in Fetches, NEW l, NEW a, NEW ref,
           Moves(f, l, a, ref), l # "exchange", mu' \in {mu, NoFetch},
           mu' # f, mu' = mu \/ mu = f, NoFetch \notin Fetches
    PROVE  Locked'
  <1>1. ASSUME NEW g \in Fetches PROVE pc'[g] = "exchange" <=> mu' = g
    <2>1. CASE g = f
      BY <2>1, MovesLeave
    <2>2. CASE g # f
      <3>1. pc'[g] = pc[g]
        BY <2>2, MovesLeave
      <3>2. QED
        BY <2>2, <3>1 DEF Locked
    <2>3. QED
      BY <2>1, <2>2
  <1>2. QED
    BY <1>1 DEF Locked

\* Where authenticate leaves a fetch whose token is good.
LEMMA AuthenticatedKnows ==
    ASSUME PInv, PayPalAssumption, NEW f \in Fetches, Authenticated(f),
           pc[f] \in {"authenticate", "exchange"}, TokenOK', faults' = faults,
           disturbed' = disturbed,
           refreshed[f] /\ f \notin disturbed => Good(accessToken)'
    PROVE  FetchInv(f)' /\ pc'[f] # "exchange"
  <1>1. ControlOK /\ FetchInv(f) /\ faults \in Nat /\ MaxRetries \in Nat \ {0}
    BY DEF PInv, TokenOK, PayPalAssumption
  <1>2. FewAttempts(f)
    BY <1>1 DEF FetchInv
  <1>3. CASE Moves(f, "send", 0, FALSE)
    <2>1. pc'[f] = "send" /\ attempt'[f] = 0 /\ refreshed'[f] = FALSE
      BY <1>1, <1>3, MovesLeave
    <2>2. QED
      BY <2>1 DEF FetchInv, FewAttempts, TokenKnown, NeedLasts, Caused
  <1>4. CASE Moves(f, "done", attempt[f], refreshed[f])
    <2>1. pc'[f] = "done"
      BY <1>1, <1>4, MovesLeave
    <2>2. QED
      BY <2>1 DEF FetchInv, FewAttempts, TokenKnown, NeedLasts, Caused
  <1>5. CASE window[f] # 0 /\ Moves(f, "send", attempt[f] + 1, refreshed[f])
    <2>1. pc'[f] = "send" /\ refreshed'[f] = refreshed[f] /\ refreshed[f]
      BY <1>1, <1>2, <1>5, MovesLeave DEF FewAttempts
    <2>2. QED
      BY <2>1 DEF FetchInv, FewAttempts, TokenKnown, NeedLasts, Caused
  <1>6. CASE attempt[f] = MaxRetries /\ Moves(f, "failed", attempt[f], refreshed[f])
    <2>1. pc'[f] = "failed" /\ faults > 0
      BY <1>1, <1>2, <1>6, MovesLeave DEF FewAttempts
    <2>2. QED
      BY <2>1 DEF FetchInv, FewAttempts, TokenKnown, NeedLasts, Caused
  <1>7. QED
    BY <1>1, <1>3, <1>4, <1>5, <1>6, AuthenticatedMoves

\* A return of authenticate changes nothing of another fetch.
LEMMA AuthenticatedLeaves ==
    ASSUME ControlOK, PayPalAssumption, NEW f \in Fetches, Authenticated(f)
    PROVE  /\ ControlOK' /\ UNCHANGED got
           /\ \A g \in Fetches \ {f} :
                 /\ pc'[g] = pc[g] /\ attempt'[g] = attempt[g]
                 /\ refreshed'[g] = refreshed[g] /\ window'[g] = window[g]
  BY AuthenticatedMoves, MovesLeave

-----------------------------------------------------------------------------
LEMMA UseCachedKeeps ==
    ASSUME PInv, PayPalAssumption, NEW f \in Fetches, UseCached(f)
    PROVE  PInv'
  <1>1. /\ ControlOK /\ TokenOK /\ Locked /\ NoFetch \notin Fetches
        /\ \A g \in Fetches : FetchInv(g)
    BY DEF PInv, PayPalAssumption
  <1>2. /\ pc[f] = "authenticate" /\ mu = NoFetch /\ accessToken # 0 /\ Authenticated(f)
        /\ UNCHANGED <<accessToken, expired, issued, lapsed, mu, header, disturbed, faults>>
    BY DEF UseCached, token
  <1>3. /\ ControlOK' /\ UNCHANGED got
        /\ \A g \in Fetches \ {f} :
              /\ pc'[g] = pc[g] /\ attempt'[g] = attempt[g]
              /\ refreshed'[g] = refreshed[g] /\ window'[g] = window[g]
    BY <1>1, <1>2, AuthenticatedLeaves
  <1>4. TokenOK'
    BY <1>1, <1>2, <1>3 DEF TokenOK
  <1>5. FetchInv(f)' /\ pc'[f] # "exchange"
    <2>1. refreshed[f] /\ f \notin disturbed => Good(accessToken)'
      BY <1>1, <1>2 DEF FetchInv, TokenKnown, Good
    <2>2. QED
      BY <1>2, <1>4, <2>1, AuthenticatedKnows
  <1>6. Locked'
    BY <1>1, <1>2, <1>3, <1>5 DEF Locked
  <1>7. ASSUME NEW g \in Fetches \ {f} PROVE FetchInv(g)'
    <2>1. NeedLasts(g)'
      BY <1>1, <1>2, <1>3, <1>7 DEF FetchInv, NeedLasts
    <2>2. FetchInv(g)
      BY <1>1
    <2>3. issued <= issued'
      BY <1>1, <1>2 DEF TokenOK
    <2>4. QED
      BY <1>1, <1>2, <1>3, <1>4, <2>1, <2>2, <2>3, OthersKept
  <1>8. QED
    BY <1>3, <1>4, <1>5, <1>6, <1>7 DEF PInv

LEMMA TokenIssuedKeeps ==
    ASSUME PInv, PayPalAssumption, NEW f \in Fetches, TokenIssued(f)
    PROVE  PInv'
  <1>1. /\ ControlOK /\ TokenOK /\ Locked /\ NoFetch \notin Fetches
        /\ \A g \in Fetches : FetchInv(g)
    BY DEF PInv, PayPalAssumption
  <1>2. /\ pc[f] = "exchange" /\ mu' = NoFetch /\ Authenticated(f)
        /\ issued' = issued + 1 /\ accessToken' = issued + 1 /\ expired' = FALSE
        /\ UNCHANGED <<lapsed, header, disturbed, faults>>
    BY DEF TokenIssued
  <1>3. /\ ControlOK' /\ UNCHANGED got
        /\ \A g \in Fetches \ {f} :
              /\ pc'[g] = pc[g] /\ attempt'[g] = attempt[g]
              /\ refreshed'[g] = refreshed[g] /\ window'[g] = window[g]
    BY <1>1, <1>2, AuthenticatedLeaves
  <1>4. issued \in Nat /\ lapsed \subseteq 1 .. issued
    BY <1>1 DEF TokenOK
  <1>5. TokenOK'
    <2>1. issued' \in Nat /\ accessToken' \in 0 .. issued' /\ lapsed' \subseteq 1 .. issued'
      BY <1>2, <1>4
    <2>2. header' \in [Fetches -> 0 .. issued']
      <3>1. 0 .. issued \subseteq 0 .. issued'
        BY <1>2, <1>4
      <3>2. header \in [Fetches -> 0 .. issued] /\ header' = header
        BY <1>1, <1>2 DEF TokenOK
      <3>3. QED
        BY <3>1, <3>2
    <2>3. QED
      BY <1>1, <1>2, <1>3, <2>1, <2>2 DEF TokenOK
  <1>6. Good(accessToken)'
    BY <1>2, <1>4 DEF Good
  <1>7. FetchInv(f)' /\ pc'[f] # "exchange"
    BY <1>2, <1>5, <1>6, AuthenticatedKnows
  <1>8. \A g \in Fetches \ {f} : pc[g] # "exchange"
    BY <1>1, <1>2 DEF Locked
  <1>9. Locked'
    BY <1>1, <1>2, <1>3, <1>7, <1>8 DEF Locked
  <1>10. ASSUME NEW g \in Fetches \ {f} PROVE FetchInv(g)'
    <2>1. NeedLasts(g)'
      BY <1>3, <1>8, <1>10 DEF NeedLasts
    <2>2. FetchInv(g) /\ header'[g] = header[g] /\ issued <= issued'
      BY <1>1, <1>2, <1>4
    <2>3. QED
      BY <1>1, <1>2, <1>3, <1>5, <1>6, <2>1, <2>2, OthersKept
  <1>11. QED
    BY <1>3, <1>5, <1>7, <1>9, <1>10 DEF PInv

\* A fetch goes on, and leaves the token where it is.
LEMMA MoveKeeps ==
    ASSUME PInv, NEW f \in Fetches, NEW l, NEW a, NEW ref, Moves(f, l, a, ref),
           ControlOK', TokenOK', Locked', FetchInv(f)',
           UNCHANGED <<accessToken, expired, issued, lapsed>>,
           \A g \in Fetches \ {f} : header'[g] = header[g],
           disturbed \subseteq disturbed' \cup {f}, faults' = 0 => faults = 0
    PROVE  PInv'
  <1>1. ControlOK /\ TokenOK /\ \A g \in Fetches : FetchInv(g)
    BY DEF PInv
  <1>2. ASSUME NEW g \in Fetches \ {f} PROVE FetchInv(g)'
    <2>1. /\ pc'[g] = pc[g] /\ attempt'[g] = attempt[g]
          /\ refreshed'[g] = refreshed[g] /\ window'[g] = window[g]
      BY <1>1, MovesLeave
    <2>2. FetchInv(g) /\ header'[g] = header[g] /\ issued <= issued'
      BY <1>1 DEF TokenOK
    <2>3. NeedLasts(g)'
      BY <2>1, <2>2 DEF FetchInv, NeedLasts
    <2>4. QED
      BY <1>1, <2>1, <2>2, <2>3, OthersKept
  <1>3. QED
    BY <1>2 DEF PInv

\* Goto alone.
LEMMA GotoMoves ==
    ASSUME ControlOK, NEW f \in Fetches, NEW l \in Places, Goto(f, l),
           UNCHANGED <<place, attempt, refreshed>>
    PROVE  ControlOK' /\ Moves(f, l, attempt[f], refreshed[f])
  BY DEF ControlOK, Goto, place, Moves

LEMMA RequestTokenKeeps ==
    ASSUME PInv, PayPalAssumption, NEW f \in Fetches, RequestToken(f)
    PROVE  PInv'
  <1>1. ControlOK /\ TokenOK /\ Locked /\ FetchInv(f) /\ NoFetch \notin Fetches
    BY DEF PInv, PayPalAssumption
  <1>2. /\ pc[f] = "authenticate" /\ mu = NoFetch
        /\ accessToken = 0 \/ expired
        /\ mu' = f /\ Goto(f, "exchange") /\ UNCHANGED <<place, attempt, refreshed>>
        /\ UNCHANGED <<accessToken, expired, issued, lapsed, header, disturbed, faults>>
    BY DEF RequestToken, token
  <1>3. ControlOK' /\ Moves(f, "exchange", attempt[f], refreshed[f])
    BY <1>1, <1>2, GotoMoves DEF Places
  <1>4. /\ pc'[f] = "exchange" /\ attempt'[f] = attempt[f] /\ refreshed'[f] = refreshed[f]
        /\ window' = window /\ \A g \in Fetches \ {f} : pc'[g] = pc[g]
    BY <1>1, <1>2, <1>3, MovesLeave DEF place
  <1>5. TokenOK'
    BY <1>1, <1>2 DEF TokenOK, place
  <1>6. Locked'
    <2>1. ASSUME NEW g \in Fetches PROVE pc'[g] = "exchange" <=> mu' = g
      <3>1. CASE g = f
        BY <1>2, <1>4, <3>1
      <3>2. CASE g # f
        BY <1>1, <1>2, <1>4, <3>2 DEF Locked
      <3>3. QED
        BY <3>1, <3>2
    <2>2. QED
      BY <2>1 DEF Locked
  <1>7. FetchInv(f)'
    <2>1. FewAttempts(f)'
      BY <1>1, <1>2, <1>4 DEF FetchInv, FewAttempts
    <2>2. TokenKnown(f)'
      BY <1>1, <1>2, <1>4 DEF FetchInv, TokenKnown, Good
    <2>3. NeedLasts(f)' /\ Caused(f)'
      BY <1>2, <1>4 DEF NeedLasts, Caused
    <2>4. QED
      BY <2>1, <2>2, <2>3 DEF FetchInv
  <1>8. QED
    BY <1>2, <1>3, <1>5, <1>6, <1>7, MoveKeeps

LEMMA ExchangeFailsKeeps ==
    ASSUME PInv, PayPalAssumption, NEW f \in Fetches, ExchangeFails(f)
    PROVE  PInv'
  <1>1. ControlOK /\ TokenOK /\ Locked /\ NoFetch \notin Fetches /\ MaxFaults \in Nat
    BY DEF PInv, PayPalAssumption
  <1>2. /\ pc[f] = "exchange" /\ Fail(f) /\ mu' = NoFetch
        /\ faults < MaxFaults /\ faults' = faults + 1
        /\ UNCHANGED <<accessToken, expired, issued, lapsed, header, disturbed>>
    BY DEF ExchangeFails, Fault, token
  <1>3. /\ ControlOK' /\ Moves(f, "failed", attempt[f], refreshed[f])
        /\ got' = got /\ pc'[f] = "failed"
    BY <1>1, <1>2, FailMoves, MovesLeave DEF place
  <1>4. faults \in Nat /\ faults' \in 0 .. MaxFaults /\ faults' > 0
    BY <1>1, <1>2 DEF TokenOK
  <1>5. TokenOK'
    BY <1>1, <1>2, <1>3, <1>4 DEF TokenOK
  <1>6. Locked'
    <2>1. mu = f /\ mu' # f
      BY <1>1, <1>2 DEF Locked
    <2>2. QED
      BY <1>1, <1>2, <1>3, <2>1, MovesUnlocked
  <1>7. FetchInv(f)'
    BY <1>3, <1>4 DEF FetchInv, FewAttempts, TokenKnown, NeedLasts, Caused
  <1>8. QED
    BY <1>2, <1>3, <1>4, <1>5, <1>6, <1>7, MoveKeeps

LEMMA SendKeeps ==
    ASSUME PInv, PayPalAssumption, NEW f \in Fetches, Send(f)
    PROVE  PInv'
  <1>1. ControlOK /\ TokenOK /\ Locked /\ FetchInv(f) /\ NoFetch \notin Fetches
    BY DEF PInv, PayPalAssumption
  <1>2. /\ pc[f] = "send" /\ mu = NoFetch /\ mu' = mu /\ Goto(f, "await")
        /\ header' = [header EXCEPT ![f] = accessToken]
        /\ UNCHANGED <<place, attempt, refreshed>>
        /\ UNCHANGED <<accessToken, expired, issued, lapsed, disturbed, faults>>
    BY DEF Send, token
  <1>3. ControlOK' /\ Moves(f, "await", attempt[f], refreshed[f])
    BY <1>1, <1>2, GotoMoves DEF Places
  <1>4. pc'[f] = "await" /\ attempt'[f] = attempt[f] /\ refreshed'[f] = refreshed[f]
    BY <1>1, <1>3, MovesLeave
  <1>5. header'[f] = accessToken /\ \A g \in Fetches \ {f} : header'[g] = header[g]
    BY <1>1, <1>2 DEF TokenOK
  <1>6. TokenOK'
    BY <1>1, <1>2 DEF TokenOK, place
  <1>7. Locked'
    BY <1>1, <1>2, <1>3, MovesUnlocked
  <1>8. FetchInv(f)'
    BY <1>1, <1>2, <1>4, <1>5
       DEF FetchInv, FewAttempts, TokenKnown, NeedLasts, Caused, Good
  <1>9. QED
    BY <1>2, <1>3, <1>5, <1>6, <1>7, <1>8, MoveKeeps

LEMMA PageArrivesKeeps ==
    ASSUME PInv, PayPalAssumption, NEW f \in Fetches, PageArrives(f)
    PROVE  PInv'
  <1>1. ControlOK /\ TokenOK /\ Locked /\ NoFetch \notin Fetches
    BY DEF PInv, PayPalAssumption
  <1>2. /\ pc[f] = "await" /\ mu' = mu
        /\ \/ ReadPage(f, window[f], page[f] + 1)
           \/ NextWindow(f)
        /\ disturbed' = disturbed \ {f}
        /\ UNCHANGED <<accessToken, expired, issued, lapsed, header, faults>>
    BY DEF PageArrives, token
  <1>3. window[f] \in Nat /\ page[f] + 1 \in Nat
    BY <1>1 DEF ControlOK
  <1>4. /\ ControlOK'
        /\ Moves(f, "send", 0, FALSE) \/ Moves(f, "done", attempt[f], refreshed[f])
    BY <1>1, <1>2, <1>3, ReadPageMoves, NextWindowMoves
  <1>5. \/ pc'[f] = "send" /\ attempt'[f] = 0 /\ refreshed'[f] = FALSE
        \/ pc'[f] = "done"
    <2>1. CASE Moves(f, "send", 0, FALSE)
      <3>1. pc'[f] = "send" /\ attempt'[f] = 0 /\ refreshed'[f] = FALSE
        BY <1>1, <2>1 DEF ControlOK, Moves
      <3>2. QED
        BY <3>1
    <2>2. CASE Moves(f, "done", attempt[f], refreshed[f])
      <3>1. pc'[f] = "done"
        BY <1>1, <2>2, MovesLeave
      <3>2. QED
        BY <3>1
    <2>3. QED
      BY <1>4, <2>1, <2>2
  <1>6. got' \in [Fetches -> [Txns -> Nat]]
    <2>1. PICK n \in [Txns -> Nat] : got' = [got EXCEPT ![f] = n]
      <3> DEFINE D == Details(f, window[f], page[f])
                 n == [t \in Txns |-> got[f][t] + IF t \in D THEN 1 ELSE 0]
      <3>1. got' = [got EXCEPT ![f] = n]
        BY DEF PageArrives
      <3>2. got[f] \in [Txns -> Nat]
        BY <1>1 DEF TokenOK
      <3> HIDE DEF D
      <3>3. n \in [Txns -> Nat]
        BY <3>2
      <3>4. QED
        BY <3>1, <3>3
    <2>2. QED
      BY <1>1, <2>1 DEF TokenOK
  <1>7. TokenOK'
    BY <1>1, <1>2, <1>6 DEF TokenOK
  <1>8. mu' # f
    BY <1>1, <1>2 DEF Locked
  <1>9. Locked'
    BY <1>1, <1>2, <1>4, <1>8, MovesUnlocked
  <1>10. FetchInv(f)'
    BY <1>5 DEF FetchInv, FewAttempts, TokenKnown, NeedLasts, Caused
  <1>11. QED
    BY <1>2, <1>4, <1>7, <1>9, <1>10, MoveKeeps

\* An answer of 401 to a fetch that has refreshed comes of a token that was
\* good when nobody has disturbed it: so somebody has.
LEMMA UnauthorizedKeeps ==
    ASSUME PInv, PayPalAssumption, NEW f \in Fetches, Unauthorized(f)
    PROVE  PInv'
  <1>1. ControlOK /\ TokenOK /\ Locked /\ FetchInv(f) /\ NoFetch \notin Fetches
    BY DEF PInv, PayPalAssumption
  <1>2. /\ pc[f] = "await" /\ ~Good(header[f]) /\ UNCHANGED <<mu, place>>
        /\ UNCHANGED <<accessToken, expired, issued, lapsed, header, disturbed, faults>>
    BY DEF Unauthorized, Accepted, Good, Fail, token
  <1>3. mu' # f
    BY <1>1, <1>2 DEF Locked
  <1>4. CASE refreshed[f] /\ Fail(f)
    <2>1. ControlOK' /\ Moves(f, "failed", attempt[f], refreshed[f]) /\ pc'[f] = "failed"
      BY <1>1, <1>4, FailMoves, MovesLeave
    <2>2. TokenOK'
      BY <1>1, <1>2 DEF TokenOK, place
    <2>3. Locked'
      BY <1>1, <1>2, <1>3, <2>1, MovesUnlocked
    <2>4. f \in disturbed'
      BY <1>1, <1>2, <1>4 DEF FetchInv, TokenKnown
    <2>5. FetchInv(f)'
      BY <2>1, <2>4 DEF FetchInv, FewAttempts, TokenKnown, NeedLasts, Caused
    <2>6. QED
      BY <1>2, <2>1, <2>2, <2>3, <2>5, MoveKeeps
  <1>5. CASE /\ ~refreshed[f] /\ refreshed' = [refreshed EXCEPT ![f] = TRUE]
             /\ Goto(f, "clear") /\ UNCHANGED <<place, attempt>>
    <2>1. ControlOK' /\ Moves(f, "clear", attempt[f], TRUE)
      BY <1>1, <1>5 DEF ControlOK, Goto, Moves, place, Places
    <2>2. pc'[f] = "clear" /\ attempt'[f] = attempt[f] /\ refreshed'[f]
      BY <1>1, <1>5 DEF ControlOK, Goto
    <2>3. TokenOK'
      BY <1>1, <1>2 DEF TokenOK, place
    <2>4. Locked'
      BY <1>1, <1>2, <1>3, <2>1, MovesUnlocked
    <2>5. FewAttempts(f)'
      BY <1>1, <1>2, <1>5, <2>2 DEF FetchInv, FewAttempts
    <2>6. FetchInv(f)'
      BY <2>2, <2>5 DEF FetchInv, TokenKnown, NeedLasts, Caused
    <2>7. QED
      BY <1>2, <2>1, <2>3, <2>4, <2>6, MoveKeeps
  <1>6. QED
    BY <1>4, <1>5 DEF Unauthorized

LEMMA FaultKeeps ==
    ASSUME PInv, PayPalAssumption, NEW f \in Fetches, Transient(f) \/ Refused(f)
    PROVE  PInv'
  <1>1. ControlOK /\ TokenOK /\ Locked /\ NoFetch \notin Fetches /\ MaxFaults \in Nat
    BY DEF PInv, PayPalAssumption
  <1>2. /\ pc[f] = "await" /\ mu' = mu /\ faults < MaxFaults /\ faults' = faults + 1
        /\ UNCHANGED <<accessToken, expired, issued, lapsed, header, disturbed>>
    BY DEF Transient, Refused, Fault, token
  <1>3. faults' \in 0 .. MaxFaults /\ faults' > 0 /\ mu' # f
    BY <1>1, <1>2 DEF TokenOK, Locked
  <1>4. PICK a \in Int, l \in {"send", "failed"} :
           ControlOK' /\ UNCHANGED place /\ Moves(f, l, a, refreshed[f])
    <2>1. attempt[f] \in Int /\ attempt[f] + 1 \in Int
      BY <1>1 DEF PayPalAssumption, ControlOK
    <2>2. CASE Continue(f)
      BY <1>1, <2>1, <2>2, ContinueMoves
    <2>3. CASE Fail(f)
      BY <1>1, <2>1, <2>3, FailMoves
    <2>4. QED
      BY <2>2, <2>3 DEF Transient, Refused
  <1>5. pc'[f] = l /\ refreshed'[f] = refreshed[f]
    BY <1>1, <1>4, MovesLeave
  <1>6. TokenOK'
    BY <1>1, <1>2, <1>3, <1>4 DEF TokenOK, place
  <1>7. Locked'
    BY <1>1, <1>2, <1>3, <1>4, MovesUnlocked
  <1>8. FetchInv(f)'
    <2>1. FetchInv(f)
      BY DEF PInv
    <2>2. TokenKnown(f)'
      BY <1>2, <1>5, <2>1 DEF FetchInv, TokenKnown, Good
    <2>3. FewAttempts(f)' /\ NeedLasts(f)' /\ Caused(f)'
      BY <1>3, <1>5 DEF FewAttempts, NeedLasts, Caused
    <2>4. QED
      BY <2>2, <2>3 DEF FetchInv
  <1>9. QED
    BY <1>2, <1>3, <1>4, <1>6, <1>7, <1>8, MoveKeeps

\* A clearing is noted against every other fetch that has refreshed the token.
LEMMA ClearTokenKeeps ==
    ASSUME PInv, PayPalAssumption, NEW f \in Fetches, ClearToken(f)
    PROVE  PInv'
  <1>1. /\ ControlOK /\ TokenOK /\ Locked /\ NoFetch \notin Fetches
        /\ \A g \in Fetches : FetchInv(g)
    BY DEF PInv, PayPalAssumption
  <1>2. /\ pc[f] = "clear" /\ mu = NoFetch /\ mu' = mu
        /\ accessToken' = 0 /\ expired' = TRUE /\ Goto(f, "authenticate")
        /\ disturbed' = disturbed \cup {g \in Fetches \ {f} : refreshed[g]}
        /\ UNCHANGED <<place, attempt, refreshed>>
        /\ UNCHANGED <<issued, lapsed, header, faults>>
    BY DEF ClearToken
  <1>3. ControlOK' /\ Moves(f, "authenticate", attempt[f], refreshed[f])
    BY <1>1, <1>2, GotoMoves DEF Places
  <1>4. /\ pc'[f] = "authenticate" /\ attempt'[f] = attempt[f]
        /\ refreshed' = refreshed /\ window' = window
        /\ \A g \in Fetches \ {f} : pc'[g] = pc[g]
    BY <1>1, <1>2, <1>3, MovesLeave DEF place
  <1>5. TokenOK'
    BY <1>1, <1>2 DEF TokenOK, place
  <1>6. Locked'
    BY <1>1, <1>2, <1>3, MovesUnlocked
  <1>7. FetchInv(f)'
    <2>1. FewAttempts(f)'
      BY <1>1, <1>2, <1>4 DEF FetchInv, FewAttempts
    <2>2. QED
      BY <1>2, <1>4, <2>1 DEF FetchInv, TokenKnown, NeedLasts, Caused
  <1>8. ASSUME NEW g \in Fetches \ {f} PROVE FetchInv(g)'
    <2>1. FetchInv(g) /\ pc'[g] = pc[g] /\ NeedLasts(g)'
      BY <1>1, <1>2, <1>4 DEF NeedLasts
    <2>2. refreshed[g] => g \in disturbed'
      BY <1>2
    <2>3. QED
      BY <1>1, <1>2, <1>4, <1>5, <2>1, <2>2, OthersKept
  <1>9. QED
    BY <1>3, <1>5, <1>6, <1>7, <1>8 DEF PInv

LEMMA TokensKeep ==
    ASSUME PInv, Expire \/ Lapse
    PROVE  PInv'
  <1>1. ControlOK /\ TokenOK /\ Locked /\ \A g \in Fetches : FetchInv(g)
    BY DEF PInv
  <1>2. UNCHANGED <<accessToken, mu, issued, pc, place, attempt, refreshed, header, faults>>
    BY DEF Expire, Lapse
  <1>3. ControlOK' /\ Locked'
    BY <1>1, <1>2 DEF ControlOK, Locked, place
  <1>4. TokenOK'
    <2>1. CASE Expire
      BY <1>1, <1>2, <2>1 DEF TokenOK, Expire, place
    <2>2. CASE Lapse
      BY <1>1, <1>2, <2>2 DEF TokenOK, Lapse, place
    <2>3. QED
      BY <2>1, <2>2
  <1>5. ASSUME NEW g \in Fetches PROVE FetchInv(g)'
    <2>1. FetchInv(g) /\ issued <= issued'
      BY <1>1, <1>2 DEF TokenOK
    <2>2. NeedLasts(g)' /\ (g \in disturbed => g \in disturbed')
      BY <1>2, <2>1 DEF FetchInv, NeedLasts, Expire, Lapse
    <2>3. refreshed[g] /\ g \notin disturbed' => lapsed' = lapsed
      BY DEF Expire, Lapse
    <2>4. QED
      BY <1>1, <1>2, <1>4, <2>1, <2>2, <2>3, OthersKept DEF place
  <1>6. QED
    BY <1>3, <1>4, <1>5 DEF PInv

LEMMA PInductive == ASSUME PayPalAssumption PROVE PInv /\ [Next]_vars => PInv'
  <1>1. SUFFICES ASSUME PInv, [Next]_vars PROVE PInv'
    OBVIOUS
  <1>2. CASE UNCHANGED vars
    BY <1>1, <1>2 DEF vars, PInv, ControlOK, TokenOK, Locked, FetchInv, FewAttempts,
       TokenKnown, NeedLasts, Caused, Good
  <1>3. CASE Expire \/ Lapse
    BY <1>1, <1>3, TokensKeep
  <1>4. ASSUME NEW f \in Fetches, Body(f) PROVE PInv'
    BY <1>1, <1>4, UseCachedKeeps, RequestTokenKeeps, TokenIssuedKeeps, ExchangeFailsKeeps,
       SendKeeps, PageArrivesKeeps, UnauthorizedKeeps, ClearTokenKeeps, FaultKeeps DEF Body
  <1>5. QED
    BY <1>1, <1>2, <1>3, <1>4 DEF Next

LEMMA PAlways == ASSUME PayPalAssumption PROVE Spec => []PInv
  BY PStarts, PInductive, PTL DEF Spec

-----------------------------------------------------------------------------
\* Every variable keeps its type, and a fetch at its exchange holds the mutex.
THEOREM PayPalTyped == ASSUME PayPalAssumption PROVE Spec => []TypeOK
  <1>1. PInv => TypeOK
    BY TypeParts DEF PInv
  <1>2. QED
    BY <1>1, PAlways, PTL

\* While no call fails, a fetch fails only when the token it had refreshed was
\* taken from it (fetchPage).
THEOREM FailuresAreCaused == ASSUME PayPalAssumption PROVE Spec => []FailureHasCause
  <1>1. PInv => FailureHasCause
    BY DEF PInv, FetchInv, Caused, FailureHasCause
  <1>2. QED
    BY <1>1, PAlways, PTL

\* A token is asked for only when the cache holds no valid one (authenticate).
THEOREM ExchangesAreNeeded == ASSUME PayPalAssumption PROVE Spec => OneExchangePerNeed
  <1>1. PInv /\ [Next]_vars => [issued' # issued => accessToken = 0 \/ expired]_vars
    <2>1. SUFFICES ASSUME PInv, Next, issued' # issued PROVE accessToken = 0 \/ expired
      OBVIOUS
    <2>2. PICK f \in Fetches : TokenIssued(f)
      BY <2>1 DEF Next, Body, Expire, Lapse, UseCached, RequestToken, ExchangeFails, Send,
         PageArrives, Unauthorized, ClearToken, Transient, Refused, token
    <2>3. QED
      BY <2>1, <2>2 DEF TokenIssued, PInv, FetchInv, NeedLasts
  <1>2. QED
    BY <1>1, PAlways, PTL DEF Spec, OneExchangePerNeed

-----------------------------------------------------------------------------
(* Windows and pages.                                                      *)

\* The windows up to w that list t, and the page of w on which t is.
Slices(f, t, w) == {v \in 1 .. w : t \in Listed(f, v)}
PageOf(f, t, w) ==
    Cardinality({u \in Listed(f, w) : At[u] < At[t]}) \div PageSize + 1

LEMMA Quotients ==
    ASSUME NEW P \in Nat \ {0}, NEW a \in Int
    PROVE  /\ a \div P \in Int /\ a % P \in 0 .. P - 1
           /\ a = (a \div P) * P + (a % P)
           /\ a >= 0 => a \div P >= 0
  OBVIOUS

LEMMA Products ==
    ASSUME NEW P \in Nat \ {0}, NEW a \in Int, NEW b \in Int
    PROVE  /\ a * P \in Int /\ (a <= b <=> a * P <= b * P) /\ (a < b <=> a * P < b * P)
           /\ (a + 1) * P = a * P + P /\ (a - 1) * P = a * P - P
  OBVIOUS

\* ceil of a quotient.
LEMMA Ceilings ==
    ASSUME NEW P \in Nat \ {0}, NEW a \in Nat, NEW c \in Int, c = (a + P - 1) \div P
    PROVE  c \in Nat /\ a <= c * P /\ c * P < a + P
<1> DEFINE b == a + P - 1
<1>1. b \in Int /\ b >= 0
  OBVIOUS
<1> HIDE DEF b
<1>2. b = (b \div P) * P + (b % P) /\ b % P \in 0 .. P - 1 /\ b \div P \in Nat
  <2>1. b = (b \div P) * P + (b % P)
    BY <1>1, Quotients
  <2>2. b % P \in 0 .. P - 1
    BY <1>1, Quotients
  <2>3. b \div P \in Int /\ b \div P >= 0
    BY <1>1, Quotients
  <2>4. QED
    BY <2>1, <2>2, <2>3
<1>3. c = b \div P
  BY DEF b
<1>4. QED
  BY <1>2, <1>3, Products DEF b

\* A transaction listed is on one of the window's pages.
LEMMA PageExists ==
    ASSUME PayPalAssumption, NEW f \in Fetches, NEW w \in Nat, NEW t \in Txns
    PROVE  /\ PageOf(f, t, w) \in Nat \ {0} /\ TotalPages(f, w) \in Nat
           /\ t \in Listed(f, w) => PageOf(f, t, w) <= TotalPages(f, w)
           /\ \A p \in Int : t \in Details(f, w, p) <=>
                                t \in Listed(f, w) /\ PageOf(f, t, w) = p
<1> DEFINE all == Listed(f, w)
           before == {u \in all : At[u] < At[t]}
           r == Cardinality(before)
           c == Cardinality(all)
<1>1. all \subseteq Txns /\ PageSize \in Nat \ {0} /\ At \in [Txns -> Int] /\ IsFiniteSet(Txns)
  BY DEF Listed, PayPalAssumption
<1>2. IsFiniteSet(all) /\ IsFiniteSet(before) /\ r \in Nat /\ c \in Nat
  <2>1. IsFiniteSet(all)
    BY <1>1, FS_Subset
  <2>2. before \subseteq all
    OBVIOUS
  <2> HIDE DEF all, before
  <2>3. QED
    BY <2>1, <2>2, FS_Subset, FS_CardinalityType
<1>3. ASSUME t \in all PROVE r < c
  <2>1. t \notin before /\ before \subseteq all
    <3>1. ~(At[t] < At[t])
      BY <1>1
    <3>2. QED
      BY <3>1
  <2> HIDE DEF all, before
  <2>2. r <= c /\ (c = r => all = before)
    BY <1>2, <2>1, FS_Subset
  <2>3. c # r
    BY <1>3, <2>1, <2>2
  <2> HIDE DEF r, c
  <2>4. QED
    BY <1>2, <2>2, <2>3
<1>4. /\ PageOf(f, t, w) = r \div PageSize + 1
      /\ TotalPages(f, w) = (c + PageSize - 1) \div PageSize
      /\ \A p : t \in Details(f, w, p) <=> t \in all /\ r \div PageSize = p - 1
  BY DEF PageOf, TotalPages, Details
<1> HIDE DEF r, c, all
<1> DEFINE q == r \div PageSize
           T == (c + PageSize - 1) \div PageSize
<1>5. q \in Nat /\ q * PageSize <= r
  BY <1>1, <1>2, Quotients
<1>6. T \in Nat /\ c <= T * PageSize
  BY <1>1, <1>2, Ceilings
<1>7. PageOf(f, t, w) = q + 1 /\ TotalPages(f, w) = T
  BY <1>4
<1>8. \A p : t \in Details(f, w, p) <=> t \in all /\ q = p - 1
  BY <1>4
<1> HIDE DEF q, T
<1>9. ASSUME t \in all PROVE q + 1 <= T
  <2>1. q * PageSize < T * PageSize
    <3>1. q * PageSize \in Int /\ T * PageSize \in Int
      BY <1>1, <1>5, <1>6, Products
    <3>2. QED
      BY <3>1, <1>2, <1>3, <1>5, <1>6, <1>9
  <2>2. q < T
    BY <1>1, <1>5, <1>6, <2>1, Products
  <2>3. QED
    BY <1>5, <1>6, <2>2
<1>10. \A p \in Int : q = p - 1 <=> q + 1 = p
  BY <1>5
<1>11. QED
  BY <1>5, <1>6, <1>7, <1>8, <1>9, <1>10 DEF all

\* In the terms of splitDateRange: the windows that list t are those of its
\* distance from the beginning.
LEMMA ListedWhere ==
    ASSUME PayPalAssumption, NEW f \in Fetches, NEW t \in Txns, NEW v \in Int
    PROVE  t \in Listed(f, v) <=>
              /\ (v - 1) * MaxDays <= At[t] - From[f]
              /\ At[t] - From[f] <= v * MaxDays
              /\ At[t] <= To[f]
<1>1. /\ MaxDays \in Nat \ {0} /\ At[t] \in Int /\ From[f] \in Int /\ To[f] \in Int
  BY DEF PayPalAssumption
<1>2. (v - 1) * MaxDays \in Int /\ v * MaxDays = (v - 1) * MaxDays + MaxDays
  BY <1>1, Products
<1> DEFINE k == (v - 1) * MaxDays
<1>3. Start(f, v) = From[f] + k
  BY DEF Start
<1>4. End(f, v) = IF From[f] + k + MaxDays > To[f] THEN To[f] ELSE From[f] + k + MaxDays
  BY <1>3 DEF End
<1>5. t \in Listed(f, v) <=> Start(f, v) <= At[t] /\ At[t] <= End(f, v)
  <2>1. Start(f, v) \in Int /\ End(f, v) \in Int
    BY <1>1, <1>2, <1>3, <1>4
  <2>2. QED
    BY <1>1, <2>1 DEF Listed
<1> HIDE DEF k
<1>6. QED
  BY <1>1, <1>2, <1>3, <1>4, <1>5 DEF k

LEMMA WindowsCover ==
    ASSUME PayPalAssumption, NEW f \in Fetches
    PROVE  /\ Windows(f) \in Nat
           /\ To[f] - From[f] <= Windows(f) * MaxDays
           /\ Windows(f) * MaxDays < To[f] - From[f] + MaxDays
<1>1. MaxDays \in Nat \ {0} /\ To[f] - From[f] \in Nat
  BY DEF PayPalAssumption
<1>2. QED
  BY <1>1, Ceilings DEF Windows

\* A transaction of the period is in one window, or in two when it lies on the
\* boundary between them.
LEMMA SlicesCounted ==
    ASSUME PayPalAssumption, NEW f \in Fetches, NEW t \in Txns
    PROVE  LET inside == From[f] < To[f] /\ At[t] \in From[f] .. To[f]
               shared == /\ From[f] < At[t] /\ At[t] < To[f]
                         /\ (At[t] - From[f]) % MaxDays = 0
           IN Cardinality(Slices(f, t, Windows(f))) =
                 IF ~inside THEN 0 ELSE IF shared THEN 2 ELSE 1
<1> DEFINE M == MaxDays
           d == At[t] - From[f]
           L == To[f] - From[f]
           W == Windows(f)
           q == d \div M
           r == d % M
           S == Slices(f, t, W)
<1>1. /\ M \in Nat \ {0} /\ d \in Int /\ L \in Nat
      /\ At[t] \in Int /\ From[f] \in Int /\ To[f] \in Int
  BY DEF PayPalAssumption
<1>2. W \in Nat /\ L <= W * M /\ W * M < L + M /\ W * M \in Int
  BY <1>1, WindowsCover, Products
<1>3. q \in Int /\ r \in 0 .. M - 1 /\ d = q * M + r /\ q * M \in Int
  BY <1>1, Quotients, Products
<1>4. \A v \in Int : t \in Listed(f, v) <=> (v - 1) * M <= d /\ d <= v * M /\ d <= L
  BY <1>1, ListedWhere
<1> HIDE DEF M, d, L, W, q, r
<1>5. \A v \in Int : v \in S <=> v \in 1 .. W /\ (v - 1) * M <= d /\ d <= v * M /\ d <= L
  BY <1>4, <1>2 DEF Slices
<1>6. S \subseteq 1 .. W /\ 1 .. W \subseteq Int
  BY <1>2 DEF Slices
<1>7. \A v \in Int : (v - 1) * M <= d <=> v <= q + 1
  <2> TAKE v \in Int
  <2>1. CASE v <= q + 1
    <3>1. (v - 1) * M <= q * M
      BY <1>1, <1>3, <2>1, Products
    <3>2. (v - 1) * M \in Int
      BY <1>1, Products
    <3>3. QED
      BY <1>1, <1>3, <2>1, <3>1, <3>2
  <2>2. CASE ~(v <= q + 1)
    <3>1. (q + 1) * M <= (v - 1) * M
      <4>1. q + 1 <= v - 1 /\ q + 1 \in Int /\ v - 1 \in Int
        BY <1>3, <2>2
      <4>2. QED
        BY <1>1, <4>1, Products
    <3>2. (v - 1) * M \in Int /\ (q + 1) * M = q * M + M
      BY <1>1, <1>3, Products
    <3>3. QED
      BY <1>1, <1>3, <2>2, <3>1, <3>2
  <2>3. QED
    BY <2>1, <2>2
<1>8. \A v \in Int : d <= v * M <=> q + 1 <= v \/ (r = 0 /\ v = q)
  <2> TAKE v \in Int
  <2>1. v * M \in Int /\ (q + 1) * M = q * M + M
    BY <1>1, <1>3, Products
  <2>2. CASE q + 1 <= v
    <3>1. (q + 1) * M <= v * M
      BY <1>1, <1>3, <2>2, Products
    <3>2. QED
      BY <1>1, <1>3, <2>1, <2>2, <3>1
  <2>3. CASE v = q
    BY <1>1, <1>3, <2>1, <2>3
  <2>4. CASE v < q
    <3>1. v * M < q * M
      BY <1>1, <1>3, <2>4, Products
    <3>2. QED
      BY <1>1, <1>3, <2>1, <2>4, <3>1
  <2>5. QED
    BY <1>3, <2>2, <2>3, <2>4
<1>9. q * M < L <=> q + 1 <= W
  <2>1. CASE q + 1 <= W
    <3>1. (q + 1) * M <= W * M /\ (q + 1) * M = q * M + M
      BY <1>1, <1>2, <1>3, <2>1, Products
    <3>2. QED
      BY <1>1, <1>2, <1>3, <2>1, <3>1
  <2>2. CASE ~(q + 1 <= W)
    <3>1. W <= q
      BY <1>2, <1>3, <2>2
    <3>2. W * M <= q * M
      BY <1>1, <1>2, <1>3, <3>1, Products
    <3>3. QED
      BY <1>1, <1>2, <1>3, <2>2, <3>2
  <2>3. QED
    BY <2>1, <2>2
<1>10. /\ d >= 0 <=> q >= 0
       /\ r = 0 => (d > 0 <=> q >= 1)
  <2>1. 0 * M = 0 /\ 1 * M = M
    BY <1>1
  <2>2. CASE q >= 1
    <3>1. 1 * M <= q * M
      BY <1>1, <1>3, <2>2, Products
    <3>2. QED
      BY <1>1, <1>3, <2>1, <2>2, <3>1
  <2>3. CASE q = 0
    BY <1>1, <1>3, <2>1, <2>3
  <2>4. CASE q < 0
    <3>1. (q + 1) * M <= 0 * M /\ (q + 1) * M = q * M + M
      <4>1. q + 1 <= 0 /\ q + 1 \in Int
        BY <1>3, <2>4
      <4>2. QED
        BY <1>1, <1>3, <4>1, Products
    <3>2. QED
      BY <1>1, <1>3, <2>1, <2>4, <3>1
  <2>5. QED
    BY <1>3, <2>2, <2>3, <2>4
<1>11. \A v \in Int : v \in S <=> /\ v \in 1 .. W /\ d <= L
                                 /\ (v = q + 1 \/ (r = 0 /\ v = q))
  BY <1>3, <1>5, <1>7, <1>8
<1> DEFINE inside == From[f] < To[f] /\ At[t] \in From[f] .. To[f]
           shared == /\ From[f] < At[t] /\ At[t] < To[f]
                     /\ (At[t] - From[f]) % MaxDays = 0
<1>12. /\ inside <=> L > 0 /\ d >= 0 /\ d <= L
       /\ shared <=> d > 0 /\ d < L /\ r = 0
  BY <1>1 DEF M, d, L, r
<1> HIDE DEF S, inside, shared
<1>13. IsFiniteSet({}) /\ Cardinality({}) = 0
  BY FS_EmptySet
<1>14. CASE ~inside
  <2>1. CASE L = 0
    <3>1. W * M < 1 * M
      BY <1>1, <1>2, <2>1
    <3>2. W < 1
      BY <1>1, <1>2, <3>1, Products
    <3>3. S = {}
      BY <1>2, <1>6, <3>2
    <3>4. QED
      BY <1>13, <1>14, <3>3 DEF S, inside, W
  <2>2. CASE d < 0 \/ d > L
    <3>1. \A v \in Int : v \notin S
      BY <1>1, <1>2, <1>3, <1>10, <1>11, <2>2
    <3>2. S = {}
      BY <1>6, <3>1
    <3>3. QED
      BY <1>13, <1>14, <3>2 DEF S, inside, W
  <2>3. QED
    BY <1>1, <1>12, <1>14, <2>1, <2>2
<1>15. CASE inside /\ shared
  <2>1. q >= 1 /\ q + 1 <= W /\ r = 0 /\ d <= L
    BY <1>1, <1>3, <1>9, <1>10, <1>12, <1>15
  <2>2. \A v \in Int : v \in S <=> v = q \/ v = q + 1
    BY <1>2, <1>3, <1>11, <2>1
  <2>3. S = {q} \cup {q + 1} /\ q + 1 \notin {q}
    <3>1. q \in S /\ q + 1 \in S /\ q + 1 # q
      BY <1>3, <2>2
    <3>2. \A v \in S : v = q \/ v = q + 1
      BY <1>6, <2>2
    <3>3. QED
      BY <3>1, <3>2
  <2>4. Cardinality(S) = 2
    <3>1. IsFiniteSet({q}) /\ Cardinality({q}) = 1
      BY FS_Singleton
    <3>2. Cardinality({q} \cup {q + 1}) = Cardinality({q}) + 1
      BY <2>3, <3>1, FS_AddElement
    <3>3. QED
      BY <2>3, <3>1, <3>2
  <2>5. QED
    BY <1>15, <2>4 DEF S, inside, shared, W
<1>16. CASE inside /\ ~shared
  <2>1. PICK k \in Int : \A v \in Int : v \in S <=> v = k
    <3>1. CASE r # 0 \/ d = 0
      <4>1. q >= 0 /\ q + 1 <= W /\ d <= L /\ (r = 0 => q <= 0)
        BY <1>1, <1>3, <1>9, <1>10, <1>12, <1>16, <3>1
      <4>2. \A v \in Int : v \in S <=> v = q + 1
        BY <1>2, <1>3, <1>11, <4>1
      <4>3. QED
        BY <1>3, <4>2
    <3>2. CASE r = 0 /\ d # 0
      <4>1. d = L /\ q >= 1 /\ ~(q + 1 <= W)
        BY <1>1, <1>3, <1>9, <1>10, <1>12, <1>16, <3>2
      <4>2. q <= W
        BY <1>1, <1>2, <1>3, <3>2, <4>1, Products
      <4>3. \A v \in Int : v \in S <=> v = q
        BY <1>2, <1>3, <1>11, <3>2, <4>1, <4>2
      <4>4. QED
        BY <1>3, <4>3
    <3>3. QED
      BY <3>1, <3>2
  <2>2. S = {k}
    BY <1>6, <2>1
  <2>3. Cardinality(S) = 1
    BY <2>2, FS_Singleton
  <2>4. QED
    BY <1>16, <2>3 DEF S, inside, shared, W
<1>17. QED
  BY <1>14, <1>15, <1>16

-----------------------------------------------------------------------------
(* What a fetch has read.                                                  *)

\* The times that t was read when page p of window w is next.
Seen(f, t, w, p) ==
    Cardinality(Slices(f, t, w - 1)) +
        IF t \in Listed(f, w) /\ PageOf(f, t, w) < p THEN 1 ELSE 0

Exact(f) ==
    /\ window[f] <= Windows(f)
    /\ pc[f] \in {"send", "await"} => window[f] # 0
    /\ window[f] = 0 => \A t \in Txns : got[f][t] = 0
    /\ window[f] # 0 /\ pc[f] # "done" =>
          /\ page[f] # 0
          /\ \A t \in Txns : got[f][t] = Seen(f, t, window[f], page[f])
    /\ pc[f] = "done" =>
          \A t \in Txns : got[f][t] = Cardinality(Slices(f, t, Windows(f)))

LEMMA SlicesGrow ==
    ASSUME NEW f, NEW t, NEW w \in Nat \ {0}
    PROVE  /\ Cardinality(Slices(f, t, w - 1)) \in Nat
           /\ Cardinality(Slices(f, t, w)) =
                 Cardinality(Slices(f, t, w - 1)) + IF t \in Listed(f, w) THEN 1 ELSE 0
<1>1. IsFiniteSet(Slices(f, t, w - 1)) /\ Cardinality(Slices(f, t, w - 1)) \in Nat
  <2>1. IsFiniteSet(1 .. w - 1)
    BY FS_Interval
  <2>2. Slices(f, t, w - 1) \in SUBSET (1 .. w - 1)
    BY DEF Slices
  <2>3. QED
    BY <2>1, <2>2, FS_Subset, FS_CardinalityType
<1>2. 1 .. w = (1 .. w - 1) \cup {w} /\ w \notin 1 .. w - 1
  OBVIOUS
<1>3. w \notin Slices(f, t, w - 1)
  BY <1>2 DEF Slices
<1>4. CASE t \in Listed(f, w)
  <2>1. Slices(f, t, w) = Slices(f, t, w - 1) \cup {w}
    BY <1>2, <1>4 DEF Slices
  <2>2. QED
    BY <1>1, <1>3, <1>4, <2>1, FS_AddElement
<1>5. CASE t \notin Listed(f, w)
  <2>1. Slices(f, t, w) = Slices(f, t, w - 1)
    BY <1>2, <1>5 DEF Slices
  <2>2. QED
    BY <1>1, <1>5, <2>1
<1>6. QED
  BY <1>1, <1>4, <1>5

LEMMA NoSlices == ASSUME NEW f, NEW t PROVE Cardinality(Slices(f, t, 0)) = 0
  <1>1. Slices(f, t, 0) = {}
    BY DEF Slices
  <1>2. QED
    BY <1>1, FS_EmptySet

\* The first page of a window, a page within it, and all its pages.
LEMMA SeenGrows ==
    ASSUME PayPalAssumption, NEW f \in Fetches, NEW t \in Txns,
           NEW w \in Nat \ {0}, NEW p \in Nat \ {0}
    PROVE  /\ Seen(f, t, w, 1) = Cardinality(Slices(f, t, w - 1))
           /\ Seen(f, t, w, p + 1) =
                 Seen(f, t, w, p) + IF t \in Details(f, w, p) THEN 1 ELSE 0
           /\ p >= TotalPages(f, w) =>
                 Seen(f, t, w, p + 1) = Cardinality(Slices(f, t, w))
<1> DEFINE q == PageOf(f, t, w)
           before == Cardinality(Slices(f, t, w - 1))
<1>1. /\ q \in Nat \ {0} /\ TotalPages(f, w) \in Nat
      /\ t \in Listed(f, w) => q <= TotalPages(f, w)
      /\ t \in Details(f, w, p) <=> t \in Listed(f, w) /\ q = p
  BY PageExists
<1>2. /\ before \in Nat
      /\ Cardinality(Slices(f, t, w)) = before + IF t \in Listed(f, w) THEN 1 ELSE 0
  BY SlicesGrow
<1>3. \A k : Seen(f, t, w, k) = before + IF t \in Listed(f, w) /\ q < k THEN 1 ELSE 0
  BY DEF Seen
<1> HIDE DEF q, before
<1>4. Seen(f, t, w, 1) = before
  BY <1>1, <1>2, <1>3
<1>5. Seen(f, t, w, p + 1) = Seen(f, t, w, p) + IF t \in Details(f, w, p) THEN 1 ELSE 0
  <2>1. CASE t \in Listed(f, w)
    BY <1>1, <1>2, <1>3, <2>1
  <2>2. CASE t \notin Listed(f, w)
    BY <1>1, <1>2, <1>3, <2>2
  <2>3. QED
    BY <2>1, <2>2
<1>6. p >= TotalPages(f, w) => Seen(f, t, w, p + 1) = Cardinality(Slices(f, t, w))
  BY <1>1, <1>2, <1>3
<1>7. QED
  BY <1>4, <1>5, <1>6 DEF before

\* A window is read: the next one begins or the fetch is done.
LEMMA NextWindowExact ==
    ASSUME ControlOK, PayPalAssumption, NEW f \in Fetches, NextWindow(f),
           window[f] <= Windows(f),
           \A t \in Txns : got'[f][t] = Cardinality(Slices(f, t, window[f]))
    PROVE  Exact(f)'
<1>1. window[f] \in Nat /\ Windows(f) \in Nat
  BY WindowsCover DEF ControlOK
<1>2. CASE window[f] < Windows(f) /\ ReadPage(f, window[f] + 1, 1)
  <2>1. pc'[f] = "send" /\ window'[f] = window[f] + 1 /\ page'[f] = 1
    BY <1>2 DEF ReadPage, Goto, ControlOK
  <2>2. ASSUME NEW t \in Txns
        PROVE  got'[f][t] = Seen(f, t, window[f] + 1, 1)
    <3> DEFINE u == window[f] + 1
    <3>1. u \in Nat \ {0} /\ u - 1 = window[f]
      BY <1>1
    <3> HIDE DEF u
    <3>2. Seen(f, t, u, 1) = Cardinality(Slices(f, t, u - 1))
      <4>1. 1 \in Nat \ {0}
        OBVIOUS
      <4>2. QED
        BY <3>1, <4>1, SeenGrows
    <3>3. QED
      BY <3>1, <3>2 DEF u
  <2>3. window[f] + 1 <= Windows(f) /\ window[f] + 1 # 0
    BY <1>1, <1>2
  <2>4. QED
    BY <2>1, <2>2, <2>3 DEF Exact
<1>3. CASE ~(window[f] < Windows(f)) /\ Goto(f, "done") /\ window' = window
  <2>1. pc'[f] = "done" /\ window'[f] = window[f] /\ window[f] = Windows(f)
    BY <1>1, <1>3 DEF Goto, ControlOK
  <2>2. window[f] = 0 => \A t \in Txns : got'[f][t] = 0
    BY NoSlices
  <2>3. QED
    BY <1>1, <2>1, <2>2 DEF Exact
<1>4. QED
  BY <1>2, <1>3 DEF NextWindow

\* A step that neither reads a page nor ends a window.
LEMMA WaitExact ==
    ASSUME NEW f \in Fetches, Exact(f), UNCHANGED place,
           pc'[f] = pc[f] \/ (pc[f] # "done" /\ pc'[f] # "done"),
           pc'[f] \in {"send", "await"} => window[f] # 0
    PROVE  Exact(f)'
  BY DEF Exact, place

LEMMA AuthenticatedExact ==
    ASSUME ControlOK, PayPalAssumption, NEW f \in Fetches, Exact(f), Authenticated(f),
           pc[f] \in {"authenticate", "exchange"}
    PROVE  Exact(f)'
<1>1. CASE window[f] = 0 /\ NextWindow(f) /\ got' = got
  <2>1. window[f] <= Windows(f)
    BY DEF Exact
  <2>2. \A t \in Txns : got'[f][t] = Cardinality(Slices(f, t, window[f]))
    BY <1>1, NoSlices DEF Exact
  <2>3. QED
    BY <1>1, <2>1, <2>2, NextWindowExact
<1>2. CASE window[f] # 0 /\ Continue(f)
  <2>1. UNCHANGED place /\ pc'[f] \in {"send", "failed"}
    BY <1>2 DEF Continue, Fail, Goto, place, ControlOK
  <2>2. QED
    BY <1>2, <2>1, WaitExact
<1>3. QED
  BY <1>1, <1>2 DEF Authenticated

LEMMA PageArrivesExact ==
    ASSUME ControlOK, TokenOK, PayPalAssumption, NEW f \in Fetches, Exact(f),
           PageArrives(f)
    PROVE  Exact(f)'
<1> DEFINE w == window[f]
           p == page[f]
<1>1. /\ pc[f] = "await" /\ w \in Nat \ {0} /\ p \in Nat \ {0} /\ w <= Windows(f)
      /\ Windows(f) \in Nat /\ TotalPages(f, w) \in Nat
      /\ \A t \in Txns : got[f][t] = Seen(f, t, w, p)
  <2>1. pc[f] = "await" /\ w \in Nat /\ p \in Nat
    BY DEF PageArrives, ControlOK
  <2>2. w # 0 /\ p # 0 /\ w <= Windows(f) /\ \A t \in Txns : got[f][t] = Seen(f, t, w, p)
    BY <2>1 DEF Exact
  <2>3. Windows(f) \in Nat
    BY WindowsCover
  <2>4. TotalPages(f, w) \in Nat
    <3> DEFINE all == Listed(f, w)
    <3>1. IsFiniteSet(all)
      BY FS_Subset DEF Listed, PayPalAssumption
    <3>2. Cardinality(all) \in Nat
      BY <3>1, FS_CardinalityType
    <3> HIDE DEF all
    <3>3. (Cardinality(all) + PageSize - 1) \div PageSize \in Nat
      <4>1. PageSize \in Nat \ {0}
        BY DEF PayPalAssumption
      <4>2. (Cardinality(all) + PageSize - 1) \div PageSize \in Int
        BY <3>2, <4>1
      <4>3. QED
        BY <3>2, <4>1, <4>2, Ceilings
    <3>4. QED
      BY <3>3 DEF all, TotalPages
  <2>5. QED
    BY <2>1, <2>2, <2>3, <2>4
<1>2. \A t \in Txns : got'[f][t] = Seen(f, t, w, p + 1)
  <2> SUFFICES ASSUME NEW t \in Txns PROVE got'[f][t] = Seen(f, t, w, p + 1)
    OBVIOUS
  <2>1. got'[f][t] = got[f][t] + IF t \in Details(f, w, p) THEN 1 ELSE 0
    BY DEF PageArrives, TokenOK
  <2> HIDE DEF w, p
  <2>2. QED
    BY <1>1, <2>1, SeenGrows
<1>3. CASE p < TotalPages(f, w) /\ ReadPage(f, w, p + 1)
  <2>1. pc'[f] = "send" /\ window'[f] = w /\ page'[f] = p + 1
    BY <1>3 DEF ReadPage, Goto, ControlOK
  <2> HIDE DEF w, p
  <2>2. p + 1 # 0
    BY <1>1
  <2>3. QED
    BY <1>1, <1>2, <2>1, <2>2 DEF Exact
<1>4. CASE ~(p < TotalPages(f, w)) /\ NextWindow(f)
  <2>1. p >= TotalPages(f, w)
    BY <1>1, <1>4
  <2>2. \A t \in Txns : got'[f][t] = Cardinality(Slices(f, t, w))
    <3> HIDE DEF w, p
    <3>1. QED
      BY <1>1, <1>2, <2>1, SeenGrows
  <2>3. QED
    BY <1>1, <1>4, <2>2, NextWindowExact
<1>5. QED
  BY <1>3, <1>4 DEF PageArrives

\* A step of one fetch leaves what the others have read.
LEMMA BodyLeaves ==
    ASSUME ControlOK, TokenOK, NEW f \in Fetches, Body(f), NEW g \in Fetches \ {f}
    PROVE  /\ pc'[g] = pc[g] /\ window'[g] = window[g]
           /\ page'[g] = page[g] /\ got'[g] = got[g]
<1>1. \A w, p : ReadPage(f, w, p) =>
         pc'[g] = pc[g] /\ window'[g] = window[g] /\ page'[g] = page[g]
  BY DEF ReadPage, Goto, ControlOK
<1>2. NextWindow(f) => pc'[g] = pc[g] /\ window'[g] = window[g] /\ page'[g] = page[g]
  BY <1>1 DEF NextWindow, Goto, ControlOK
<1>3. Fail(f) => UNCHANGED place /\ pc'[g] = pc[g]
  BY DEF Fail, Goto, ControlOK
<1>4. Continue(f) => UNCHANGED place /\ pc'[g] = pc[g]
  BY <1>3 DEF Continue, Goto, ControlOK
<1>5. CASE UseCached(f) \/ TokenIssued(f)
  BY <1>2, <1>4, <1>5 DEF UseCached, TokenIssued, Authenticated, place
<1>6. CASE PageArrives(f)
  <2>1. got'[g] = got[g]
    BY <1>6 DEF PageArrives, TokenOK
  <2>2. ReadPage(f, window[f], page[f] + 1) \/ NextWindow(f)
    BY <1>6 DEF PageArrives
  <2>3. QED
    BY <1>1, <1>2, <2>1, <2>2
<1>7. CASE \/ RequestToken(f) \/ ExchangeFails(f) \/ Send(f) \/ Unauthorized(f)
           \/ ClearToken(f) \/ Transient(f) \/ Refused(f)
  <2>1. UNCHANGED place /\ pc'[g] = pc[g]
    BY <1>3, <1>4, <1>7 DEF RequestToken, ExchangeFails, Send, Unauthorized, ClearToken,
       Transient, Refused, Goto, ControlOK
  <2>2. QED
    BY <2>1 DEF place
<1>8. QED
  BY <1>5, <1>6, <1>7 DEF Body

LEMMA BodyExact ==
    ASSUME ControlOK, TokenOK, PayPalAssumption, NEW f \in Fetches, Exact(f), Body(f)
    PROVE  Exact(f)'
<1>1. CASE UseCached(f) \/ TokenIssued(f)
  BY <1>1, AuthenticatedExact DEF UseCached, TokenIssued
<1>2. CASE PageArrives(f)
  BY <1>2, PageArrivesExact
<1>3. CASE RequestToken(f) \/ Send(f) \/ ClearToken(f)
  <2>1. UNCHANGED place /\ pc[f] # "done" /\ pc'[f] # "done"
    BY <1>3 DEF RequestToken, Send, ClearToken, Goto, ControlOK
  <2>2. pc'[f] \in {"send", "await"} => window[f] # 0
    BY <1>3 DEF RequestToken, Send, ClearToken, Goto, ControlOK, Exact
  <2>3. QED
    BY <2>1, <2>2, WaitExact
<1>4. CASE ExchangeFails(f) \/ Unauthorized(f) \/ Transient(f) \/ Refused(f)
  <2>1. /\ UNCHANGED place /\ pc[f] # "done" /\ pc'[f] # "done"
        /\ pc'[f] \in {"send", "await"} => pc[f] = "await"
    BY <1>4 DEF ExchangeFails, Unauthorized, Transient, Refused, Continue, Fail, Goto,
       ControlOK, place
  <2>2. QED
    BY <2>1, WaitExact DEF Exact
<1>5. QED
  BY <1>1, <1>2, <1>3, <1>4 DEF Body

\* A fetch that succeeds returns every transaction of its period and no other:
\* once, or twice when it lies on the boundary of two windows of
\* splitDateRange, whatever refreshes and retries came between
\* (FetchTransactions, fetchWindow).
THEOREM FetchesAreExact == ASSUME PayPalAssumption PROVE Spec => []FetchIsExact
<1> DEFINE EInv == \A f \in Fetches : Exact(f)
<1>1. Init => EInv
  BY WindowsCover DEF Init, Exact
<1>2. PInv /\ EInv /\ [Next]_vars => EInv'
  <2> SUFFICES ASSUME PInv, EInv, [Next]_vars, NEW g \in Fetches PROVE Exact(g)'
    OBVIOUS
  <2>1. ControlOK /\ TokenOK /\ Exact(g)
    BY DEF PInv
  <2>2. CASE Expire \/ Lapse \/ UNCHANGED vars
    <3>1. UNCHANGED <<pc, place>>
      BY <2>2 DEF Expire, Lapse, vars, place
    <3>2. QED
      BY <2>1, <3>1, WaitExact DEF Exact
  <2>3. ASSUME NEW f \in Fetches, Body(f) PROVE Exact(g)'
    <3>1. CASE f = g
      BY <2>1, <2>3, <3>1, BodyExact
    <3>2. CASE f # g
      <4>1. /\ pc'[g] = pc[g] /\ window'[g] = window[g]
            /\ page'[g] = page[g] /\ got'[g] = got[g]
        BY <2>1, <2>3, <3>2, BodyLeaves
      <4>2. QED
        BY <2>1, <4>1 DEF Exact
    <3>3. QED
      BY <3>1, <3>2
  <2>4. QED
    BY <2>2, <2>3 DEF Next
<1>3. EInv => FetchIsExact
  BY SlicesCounted DEF FetchIsExact, Exact
<1>4. QED
  <2> HIDE DEF EInv
  <2>1. QED
    BY <1>1, <1>2, <1>3, PAlways, PTL DEF Spec
=============================================================================
