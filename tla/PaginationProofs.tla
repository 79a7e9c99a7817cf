-------------------------- MODULE PaginationProofs --------------------------
(* Both iterators are walks over the pages, for every lookahead, every page  *)
(* size and every cancellation.                                              *)
EXTENDS Pagination, TLAPS

-----------------------------------------------------------------------------
(* The inductive invariant.                                                   *)

Pages == [n : Nat, err : BOOLEAN]

PTypes ==
    /\ lookahead \in Nat
    /\ sizes \in Seq(0..MaxItems) /\ Len(sizes) <= MaxPages
    /\ fails \in BOOLEAN /\ cancelled \in BOOLEAN /\ closed \in BOOLEAN
    /\ producer \in {"fetch", "send", "done"}
    /\ consumer \in {"check", "fetch", "recv", "yield", "returned"}
    /\ token \in Nat \ {0}
    /\ hand \in Pages /\ ch \in Seq(Pages)
    /\ page \in Pages /\ ~page.err /\ page.n <= Len(sizes)
    /\ idx \in 1..MaxItems + 1
    /\ yielded \in Seq(Nat \X Nat)
    /\ end \in {"no", "complete", "error", "break", "silent"}

\* Where the next fetch is: never past the page whose fetch fails, and always
\* right behind the pages that were received, are in the channel, or in hand.
TokenLaw ==
    /\ token <= Len(sizes) + 1
    /\ token = Len(sizes) + 1 => fails
    /\ lookahead = 0 =>
          /\ producer = "done" /\ ch = <<>> /\ ~closed /\ consumer # "recv"
          /\ consumer \in {"check", "fetch"} => token = page.n + 1
          /\ consumer = "yield" => token = page.n
    /\ lookahead # 0 =>
          /\ consumer \notin {"check", "fetch"}
          /\ Len(ch) <= lookahead
          /\ token <= page.n + Len(ch) + 1
          /\ producer # "done" => token = page.n + Len(ch) + 1
    /\ closed => producer = "done"

\* Why a fetch of page n failed, as far as the loop is still there to be told.
Justified(n) == consumer # "returned" => cancelled \/ n = Len(sizes) + 1

\* The channel holds the pages that follow the one being yielded, in order; a
\* failure is the last thing the producer sent.
ChanLaw ==
    \A i \in 1..Len(ch) :
        /\ ch[i].n = page.n + i
        /\ ~ch[i].err => ch[i].n <= Len(sizes)
        /\ ch[i].err => /\ i = Len(ch) /\ producer = "done"
                        /\ token = ch[i].n /\ Justified(ch[i].n)

HandLaw ==
    producer = "send" =>
        /\ hand.n = token
        /\ ~hand.err => hand.n <= Len(sizes)
        /\ hand.err => Justified(hand.n)

\* A closed channel holds the rest of the walk, unless that was cancelled.
CloseLaw ==
    (closed /\ consumer # "returned") =>
        \/ cancelled
        \/ ch # <<>> /\ ch[Len(ch)].err
        \/ page.n + Len(ch) = Len(sizes) /\ ~fails

\* What comes before item i of page p.
Ahead(p, i) == {y \in W!Items : W!Before(y, <<p, i>>)}

\* What the first p pages hold.
UpTo(p) == {x \in W!Items : x[1] <= p}

\* What the loop has seen: whole pages, or what comes before the next item.
WalkLaw ==
    /\ end = "no" <=> consumer # "returned"
    /\ consumer \in {"recv", "check", "fetch"} => W!Delivered = UpTo(page.n)
    /\ consumer = "yield" => page.n >= 1 /\ W!Delivered = Ahead(page.n, idx)

PInv == PTypes /\ TokenLaw /\ ChanLaw /\ HandLaw /\ CloseLaw /\ WalkLaw

-----------------------------------------------------------------------------
(* Items.                                                                     *)

\* An item is a position within a page.
LEMMA ItemsType ==
    ASSUME PTypes
    PROVE  /\ \A x \in W!Items : /\ x = <<x[1], x[2]>>
                                 /\ x[1] \in 1..Len(sizes) /\ x[1] \in Nat
                                 /\ sizes[x[1]] \in Nat
                                 /\ x[2] \in 1..sizes[x[1]] /\ x[2] \in Nat
           /\ \A p \in 1..Len(sizes) : \A i \in 1..sizes[p] : <<p, i>> \in W!Items
<1>1. Len(sizes) \in Nat /\ \A p \in 1..Len(sizes) : sizes[p] \in Nat
  BY PaginationAssumption DEF PTypes
<1>2. ASSUME NEW x \in W!Items
      PROVE  /\ x = <<x[1], x[2]>>
             /\ x[1] \in 1..Len(sizes) /\ x[1] \in Nat
             /\ sizes[x[1]] \in Nat
             /\ x[2] \in 1..sizes[x[1]] /\ x[2] \in Nat
  <2>1. PICK p \in 1..Len(sizes) : x \in {p} \X (1..sizes[p])
    BY <1>2 DEF W!Items
  <2> QED
    BY <1>1, <2>1
<1>3. ASSUME NEW p \in 1..Len(sizes), NEW i \in 1..sizes[p]
      PROVE  <<p, i>> \in W!Items
  BY <1>3 DEF W!Items
<1> QED
  BY <1>2, <1>3

\* Order among items.
LEMMA BeforeMeans ==
    ASSUME PTypes, NEW y \in W!Items, NEW p \in Nat, NEW i \in Nat
    PROVE  W!Before(y, <<p, i>>) <=> (y[1] < p \/ (y[1] = p /\ y[2] < i))
BY DEF W!Before

\* Before the first item of a page are the pages before it.
LEMMA PageStarts ==
    ASSUME PTypes, NEW p \in Nat
    PROVE  Ahead(p + 1, 1) = UpTo(p)
<1>1. ASSUME NEW y \in W!Items
      PROVE  W!Before(y, <<p + 1, 1>>) <=> y[1] <= p
  BY <1>1, ItemsType, BeforeMeans
<1> QED
  BY <1>1 DEF Ahead, UpTo

\* Behind its last item the page is complete.
LEMMA PageEnds ==
    ASSUME PTypes, NEW p \in 1..Len(sizes), NEW i \in Nat, i > sizes[p]
    PROVE  Ahead(p, i) = UpTo(p)
<1>1. p \in Nat
  BY DEF PTypes
<1>2. ASSUME NEW y \in W!Items
      PROVE  W!Before(y, <<p, i>>) <=> y[1] <= p
  BY <1>1, <1>2, ItemsType, BeforeMeans
<1> QED
  BY <1>2 DEF Ahead, UpTo

\* One item further.
LEMMA ItemFollows ==
    ASSUME PTypes, NEW p \in 1..Len(sizes), NEW i \in 1..sizes[p]
    PROVE  /\ <<p, i>> \in W!Items
           /\ Ahead(p, i) \cup {<<p, i>>} = Ahead(p, i + 1)
<1>1. p \in Nat /\ i \in Nat /\ <<p, i>> \in W!Items
  BY ItemsType DEF PTypes
<1>2. ASSUME NEW y \in W!Items
      PROVE  W!Before(y, <<p, i + 1>>) <=> (W!Before(y, <<p, i>>) \/ y = <<p, i>>)
  BY <1>1, <1>2, ItemsType, BeforeMeans
<1> QED
  BY <1>1, <1>2 DEF Ahead

\* The pages of the server hold all its items.
LEMMA AllPages ==
    ASSUME PTypes
    PROVE  UpTo(Len(sizes)) = W!Items
<1>1. \A x \in W!Items : x[1] <= Len(sizes)
  BY ItemsType DEF PTypes
<1> QED
  BY <1>1 DEF UpTo

\* One item more is seen.
LEMMA DeliveredGrows ==
    ASSUME PTypes, NEW x \in Nat \X Nat, yielded' = Append(yielded, x)
    PROVE  W!Delivered' = W!Delivered \cup {x} /\ yielded' \in Seq(Nat \X Nat)
<1>1. yielded \in Seq(Nat \X Nat) /\ Len(yielded) \in Nat
  BY DEF PTypes
<1>2. /\ yielded' \in Seq(Nat \X Nat) /\ Len(yielded') = Len(yielded) + 1
      /\ yielded'[Len(yielded) + 1] = x
      /\ \A n \in 1..Len(yielded) : yielded'[n] = yielded[n]
  BY <1>1
<1> QED
  BY <1>1, <1>2 DEF W!Delivered

-----------------------------------------------------------------------------
(* Facts the steps share.                                                     *)

\* What the loop has seen depends on the loop.
LEMMA WalkStays ==
    ASSUME WalkLaw, UNCHANGED <<sizes, consumer, page, idx, yielded, end>>
    PROVE  WalkLaw'
BY DEF WalkLaw, UpTo, Ahead, W!Delivered, W!Items

\* When the sizes and what was seen stay, so do the sets named after them.
LEMMA SetsStay ==
    ASSUME UNCHANGED <<sizes, yielded>>
    PROVE  W!Items' = W!Items /\ W!Delivered' = W!Delivered
BY DEF W!Delivered, W!Items

\* What fetch returns.
LEMMA FetchReturns ==
    ASSUME PTypes, NEW b \in BOOLEAN, NEW p \in FetchPage(b), token <= Len(sizes) + 1
    PROVE  /\ p \in Pages /\ p.n = token
           /\ ~p.err => p.n <= Len(sizes)
           /\ p.err => b \/ p.n = Len(sizes) + 1
<1>1. token \in Nat /\ Len(sizes) \in Nat
  BY DEF PTypes
<1>2. CASE p = Page(token, FALSE) /\ token <= Len(sizes)
  BY <1>1, <1>2 DEF Page, Pages
<1>3. CASE p = Page(token, TRUE) /\ (b \/ token > Len(sizes))
  BY <1>1, <1>3 DEF Page, Pages
<1>4. \/ p \in {Page(t, FALSE) : t \in {token} \cap 1..Len(sizes)}
      \/ (b \/ token > Len(sizes)) /\ p = Page(token, TRUE)
  BY DEF FetchPage
<1>5. ASSUME p \in {Page(t, FALSE) : t \in {token} \cap 1..Len(sizes)}
      PROVE  p = Page(token, FALSE) /\ token <= Len(sizes)
  <2>1. PICK t \in {token} \cap 1..Len(sizes) : p = Page(t, FALSE)
    BY <1>5
  <2> QED
    BY <1>1, <2>1
<1> QED
  BY <1>2, <1>3, <1>4, <1>5

\* The first thing in the channel.
LEMMA HeadOfChannel ==
    ASSUME PTypes, ChanLaw, ch # <<>>
    PROVE  /\ Len(ch) \in Nat /\ Len(ch) >= 1
           /\ Head(ch) = ch[1] /\ Head(ch) \in Pages
           /\ Head(ch).n = page.n + 1
           /\ Head(ch).err => Len(ch) = 1
           /\ Tail(ch) \in Seq(Pages) /\ Len(Tail(ch)) = Len(ch) - 1
           /\ \A i \in 1..Len(Tail(ch)) : Tail(ch)[i] = ch[i + 1] /\ i + 1 \in 1..Len(ch)
<1>1. /\ Len(ch) \in Nat /\ Len(ch) >= 1
      /\ Head(ch) = ch[1] /\ Head(ch) \in Pages
      /\ Tail(ch) \in Seq(Pages) /\ Len(Tail(ch)) = Len(ch) - 1
      /\ \A i \in 1..Len(Tail(ch)) : Tail(ch)[i] = ch[i + 1] /\ i + 1 \in 1..Len(ch)
  BY DEF PTypes
<1>2. 1 \in 1..Len(ch)
  BY <1>1
<1>3. ch[1].n = page.n + 1 /\ (ch[1].err => 1 = Len(ch))
  BY <1>2 DEF ChanLaw
<1> QED
  BY <1>1, <1>3

-----------------------------------------------------------------------------
(* The steps.                                                                 *)

\* What a sequence is.
LEMMA SeqDef == \A S : Seq(S) = UNION {[1..n -> S] : n \in Nat}
OBVIOUS

\* The initial states satisfy the invariant.
LEMMA InitPInv == Init => PInv
<1> SUFFICES ASSUME Init PROVE PInv
  OBVIOUS
<1>1. sizes \in Seq(0..MaxItems) /\ Len(sizes) <= MaxPages /\ Len(sizes) \in Nat
  <2>1. PICK n \in 0..MaxPages : sizes \in [1..n -> 0..MaxItems]
    BY DEF Init
  <2>2. n \in Nat /\ n <= MaxPages
    BY PaginationAssumption
  <2>3. sizes \in Seq(0..MaxItems)
    BY <2>1, <2>2, SeqDef
  <2>4. Len(sizes) = n
    BY <2>1, <2>2, <2>3
  <2> QED
    BY <2>2, <2>3, <2>4
<1>2. lookahead \in Nat
  BY PaginationAssumption DEF Init
<1>3. PTypes
  <2>1. NoPage \in Pages /\ ~NoPage.err /\ NoPage.n <= Len(sizes)
    BY <1>1 DEF NoPage, Page, Pages
  <2>2. /\ producer \in {"fetch", "send", "done"}
        /\ consumer \in {"check", "fetch", "recv", "yield", "returned"}
    BY DEF Init
  <2>3. 1 \in 1..MaxItems + 1
    BY PaginationAssumption
  <2>4. hand = NoPage /\ page = NoPage /\ idx = 1 /\ token = 1 /\ end = "no"
    BY DEF Init
  <2>5. ch \in Seq(Pages) /\ yielded \in Seq(Nat \X Nat)
    BY DEF Init
  <2>6. fails \in BOOLEAN /\ cancelled \in BOOLEAN /\ closed \in BOOLEAN
    BY DEF Init
  <2> QED
    BY <1>1, <1>2, <2>1, <2>2, <2>3, <2>4, <2>5, <2>6 DEF PTypes
<1>4. TokenLaw
  BY <1>1, <1>2 DEF Init, TokenLaw, NoPage, Page
<1>5. ChanLaw /\ HandLaw /\ CloseLaw
  BY DEF Init, ChanLaw, HandLaw, CloseLaw
<1>6. W!Delivered = {} /\ UpTo(0) = {}
  <2>1. W!Delivered = {}
    BY DEF Init, W!Delivered
  <2>2. UpTo(0) = {}
    BY <1>3, ItemsType DEF UpTo
  <2> QED
    BY <2>1, <2>2
<1>7. WalkLaw
  BY <1>6 DEF Init, WalkLaw, NoPage, Page
<1> QED
  BY <1>3, <1>4, <1>5, <1>7 DEF PInv

\* The producer's fetch returns.
LEMMA ProducerFetchStep ==
    ASSUME PInv, ProducerFetch
    PROVE  PInv'
<1>0. PTypes /\ TokenLaw /\ ChanLaw /\ HandLaw /\ CloseLaw /\ WalkLaw
  BY DEF PInv
<1>1. /\ producer = "fetch" /\ producer' = "send"
      /\ UNCHANGED <<lookahead, sizes, fails, cancelled, token, ch, closed, consumer,
                      page, idx, yielded, end>>
  BY DEF ProducerFetch, server
<1>2. /\ hand' \in Pages /\ hand'.n = token
      /\ ~hand'.err => hand'.n <= Len(sizes)
      /\ hand'.err => fctxDone \/ hand'.n = Len(sizes) + 1
  BY <1>0, FetchReturns DEF ProducerFetch, TokenLaw, fctxDone, PTypes
<1>3. PTypes'
  BY <1>0, <1>1, <1>2 DEF PTypes
<1>4. TokenLaw'
  BY <1>0, <1>1 DEF TokenLaw
<1>5. ChanLaw'
  BY <1>0, <1>1 DEF ChanLaw, Justified
<1>6. HandLaw'
  BY <1>1, <1>2 DEF HandLaw, Justified, fctxDone
<1>7. CloseLaw' /\ WalkLaw'
  BY <1>0, <1>1, WalkStays DEF CloseLaw
<1> QED
  BY <1>3, <1>4, <1>5, <1>6, <1>7 DEF PInv

\* The page in hand is sent.
LEMMA ProducerSendStep ==
    ASSUME PInv, ProducerSend
    PROVE  PInv'
<1>0. PTypes /\ TokenLaw /\ ChanLaw /\ HandLaw /\ CloseLaw /\ WalkLaw
  BY DEF PInv
<1>1. /\ producer = "send" /\ Len(ch) # lookahead
      /\ ch' = Append(ch, hand) /\ hand' = NoPage
      /\ UNCHANGED <<lookahead, sizes, fails, cancelled, consumer, page, idx, yielded,
                      end>>
  BY DEF ProducerSend, chanFull, server
<1>2. /\ (hand.err \/ lastPage(hand)) =>
             producer' = "done" /\ closed' = TRUE /\ token' = token
      /\ ~(hand.err \/ lastPage(hand)) =>
             producer' = "fetch" /\ token' = token + 1 /\ closed' = closed
  BY DEF ProducerSend
<1>3. /\ hand \in Pages /\ hand.n = token
      /\ ~hand.err => hand.n <= Len(sizes)
      /\ hand.err => Justified(hand.n)
  BY <1>0, <1>1 DEF PTypes, HandLaw
<1>4. /\ Len(ch) \in Nat /\ ch' \in Seq(Pages) /\ Len(ch') = Len(ch) + 1
      /\ ch'[Len(ch) + 1] = hand
      /\ \A i \in 1..Len(ch) : ch'[i] = ch[i]
  BY <1>0, <1>1 DEF PTypes
<1>5. /\ lookahead # 0 /\ ~closed /\ Len(ch) < lookahead
      /\ token = page.n + Len(ch) + 1
      /\ token \in Nat /\ page.n \in Nat /\ Len(sizes) \in Nat /\ lookahead \in Nat
  BY <1>0, <1>1, <1>4 DEF TokenLaw, PTypes, Pages
<1>6. PTypes'
  <2>1. NoPage \in Pages
    BY DEF NoPage, Page, Pages
  <2>2. /\ token' \in Nat \ {0} /\ closed' \in BOOLEAN
        /\ producer' \in {"fetch", "send", "done"}
    <3>1. CASE hand.err \/ lastPage(hand)
      BY <1>0, <1>2, <3>1 DEF PTypes
    <3>2. CASE ~(hand.err \/ lastPage(hand))
      BY <1>0, <1>2, <1>5, <3>2 DEF PTypes
    <3> QED
      BY <3>1, <3>2
  <2> QED
    BY <1>0, <1>1, <1>4, <2>1, <2>2 DEF PTypes
<1>7. TokenLaw'
  <2>1. CASE hand.err \/ lastPage(hand)
    BY <1>0, <1>1, <1>2, <1>4, <1>5, <2>1 DEF TokenLaw, PTypes
  <2>2. CASE ~(hand.err \/ lastPage(hand))
    <3>1. token <= Len(sizes) /\ (token = Len(sizes) => fails)
      BY <1>3, <2>2 DEF lastPage
    <3>2. producer' = "fetch" /\ token' = token + 1 /\ closed' = closed
      BY <1>2, <2>2
    <3>3. token' <= Len(sizes) + 1 /\ (token' = Len(sizes) + 1 => fails)
      BY <1>5, <3>1, <3>2
    <3>4. /\ token' = page.n + Len(ch') + 1 /\ token' <= page.n + Len(ch') + 1
          /\ Len(ch') <= lookahead
      <4>1. /\ Len(ch') = Len(ch) + 1 /\ Len(ch) \in Nat /\ token' = token + 1
            /\ token = page.n + Len(ch) + 1 /\ Len(ch) < lookahead
            /\ page.n \in Nat /\ lookahead \in Nat
        BY <1>4, <1>5, <3>2
      <4> QED
        BY <4>1
    <3> QED
      BY <1>0, <1>1, <1>5, <3>2, <3>3, <3>4 DEF TokenLaw, PTypes
  <2> QED
    BY <2>1, <2>2
<1>8. ChanLaw'
  <2>1. ASSUME NEW i \in 1..Len(ch)
        PROVE  /\ ch'[i] = ch[i] /\ ~ch[i].err /\ ch[i].n = page.n + i
               /\ ch[i].n <= Len(sizes)
    BY <1>0, <1>1, <1>4, <2>1 DEF ChanLaw
  <2>2. hand.err => producer' = "done" /\ token' = token /\ Justified(token)
    BY <1>2, <1>3
  <2>3. ASSUME NEW i \in 1..Len(ch')
        PROVE  /\ ch'[i].n = page'.n + i
               /\ ~ch'[i].err => ch'[i].n <= Len(sizes')
               /\ ch'[i].err => /\ i = Len(ch') /\ producer' = "done"
                                /\ token' = ch'[i].n /\ Justified(ch'[i].n)
    <3>1. CASE i \in 1..Len(ch)
      BY <1>1, <2>1, <3>1
    <3>2. CASE i = Len(ch) + 1
      BY <1>1, <1>3, <1>4, <1>5, <2>2, <3>2
    <3> QED
      BY <1>4, <3>1, <3>2
  <2> QED
    BY <1>1, <2>3 DEF ChanLaw, Justified
<1>9. HandLaw'
  BY <1>2 DEF HandLaw
<1>10. CloseLaw'
  <2>1. CASE hand.err
    BY <1>4, <2>1 DEF CloseLaw
  <2>2. CASE lastPage(hand)
    BY <1>1, <1>3, <1>4, <1>5, <2>2 DEF CloseLaw, lastPage
  <2>3. CASE ~(hand.err \/ lastPage(hand))
    BY <1>2, <1>5, <2>3 DEF CloseLaw
  <2> QED
    BY <2>1, <2>2, <2>3
<1>11. WalkLaw'
  BY <1>0, <1>1, WalkStays
<1> QED
  BY <1>6, <1>7, <1>8, <1>9, <1>10, <1>11 DEF PInv

\* The page in hand is dropped.
LEMMA ProducerCancelledStep ==
    ASSUME PInv, ProducerCancelled
    PROVE  PInv'
<1>0. PTypes /\ TokenLaw /\ ChanLaw /\ HandLaw /\ CloseLaw /\ WalkLaw
  BY DEF PInv
<1>1. /\ producer = "send" /\ producer' = "done" /\ closed' = TRUE /\ hand' = NoPage
      /\ cancelled \/ consumer = "returned"
      /\ UNCHANGED <<lookahead, sizes, fails, cancelled, token, ch, consumer, page, idx,
                      yielded, end>>
  BY DEF ProducerCancelled, fctxDone, server
<1>2. PTypes'
  BY <1>0, <1>1 DEF PTypes, NoPage, Page, Pages
<1>3. TokenLaw'
  BY <1>0, <1>1 DEF TokenLaw
<1>4. ChanLaw' /\ HandLaw' /\ CloseLaw'
  BY <1>0, <1>1 DEF ChanLaw, HandLaw, CloseLaw, Justified
<1>5. WalkLaw'
  BY <1>0, <1>1, WalkStays
<1> QED
  BY <1>2, <1>3, <1>4, <1>5 DEF PInv

\* The walk ends; what is still in the channel stays there, or was the error.
LEMMA ReturnStep ==
    ASSUME PInv, consumer' = "returned", NEW how, Return(how),
           how \in {"complete", "error", "break", "silent"},
           UNCHANGED <<server, cancelled, prodVars, token, closed, page, idx>>,
           yielded' \in Seq(Nat \X Nat),
           \/ ch' = ch
           \/ ch' = <<>> /\ producer = "done" /\ token <= page.n + 1
    PROVE  PInv'
<1>0. PTypes /\ TokenLaw /\ ChanLaw /\ HandLaw /\ CloseLaw /\ WalkLaw
  BY DEF PInv
<1>1. /\ end' = how /\ UNCHANGED <<lookahead, sizes, fails, producer, hand>>
  BY DEF Return, server, prodVars
<1>2. ch' \in Seq(Pages)
  <2>1. ch \in Seq(Pages) /\ <<>> \in Seq(Pages)
    BY <1>0 DEF PTypes
  <2> QED
    BY <2>1
<1>3. PTypes'
  BY <1>0, <1>1, <1>2 DEF PTypes
<1>4. TokenLaw'
  <2>1. CASE ch' = ch
    BY <1>0, <1>1, <2>1 DEF TokenLaw
  <2>2. CASE ch' = <<>> /\ producer = "done" /\ token <= page.n + 1
    <3>1. Len(ch') = 0 /\ page.n + 0 + 1 = page.n + 1 /\ 0 <= lookahead
      BY <1>0, <2>2 DEF PTypes, Pages
    <3> QED
      BY <1>0, <1>1, <2>2, <3>1 DEF TokenLaw
  <2> QED
    BY <2>1, <2>2
<1>5. ChanLaw'
  BY <1>0, <1>1 DEF ChanLaw, Justified
<1>6. HandLaw' /\ CloseLaw' /\ WalkLaw'
  BY <1>0, <1>1 DEF HandLaw, CloseLaw, WalkLaw, Justified
<1> QED
  BY <1>3, <1>4, <1>5, <1>6 DEF PInv

\* A page is received and its first item is next.
LEMMA ReceivePageStep ==
    ASSUME PInv, Receive, ~Head(ch).err
    PROVE  PInv'
<1>0. PTypes /\ TokenLaw /\ ChanLaw /\ HandLaw /\ CloseLaw /\ WalkLaw
  BY DEF PInv
<1>1. /\ consumer = "recv" /\ ch # <<>> /\ ch' = Tail(ch)
      /\ consumer' = "yield" /\ page' = Head(ch) /\ idx' = 1
      /\ UNCHANGED <<lookahead, sizes, fails, cancelled, producer, hand, token, closed,
                      yielded, end>>
  BY DEF Receive, server, prodVars
<1>2. /\ Len(ch) \in Nat /\ Len(ch) >= 1
      /\ Head(ch) = ch[1] /\ Head(ch) \in Pages
      /\ page'.n = page.n + 1
      /\ ch' \in Seq(Pages) /\ Len(ch') = Len(ch) - 1
      /\ \A i \in 1..Len(ch') : ch'[i] = ch[i + 1] /\ i + 1 \in 1..Len(ch)
  BY <1>0, <1>1, HeadOfChannel
<1>3. page.n \in Nat /\ page'.n <= Len(sizes) /\ Len(sizes) \in Nat /\ token \in Nat
  <2>1. 1 \in 1..Len(ch)
    BY <1>2
  <2>2. Head(ch).n <= Len(sizes)
    BY <1>0, <1>2, <2>1 DEF ChanLaw
  <2> QED
    BY <1>0, <1>1, <2>2 DEF PTypes, Pages
<1>4. PTypes'
  <2>1. 1 \in 1..MaxItems + 1
    BY PaginationAssumption
  <2> QED
    BY <1>0, <1>1, <1>2, <1>3, <2>1 DEF PTypes
<1>5. lookahead # 0 /\ page'.n + Len(ch') = page.n + Len(ch)
  BY <1>0, <1>1, <1>2, <1>3 DEF TokenLaw
<1>6. TokenLaw'
  <2>1. Len(ch') <= lookahead
    <3>1. Len(ch) <= lookahead /\ lookahead \in Nat
      BY <1>0, <1>5 DEF TokenLaw, PTypes
    <3> QED
      BY <1>2, <3>1
  <2> QED
    BY <1>0, <1>1, <1>5, <2>1 DEF TokenLaw
<1>7. ChanLaw'
  <2>1. ASSUME NEW i \in 1..Len(ch')
        PROVE  /\ ch'[i].n = page'.n + i
               /\ ~ch'[i].err => ch'[i].n <= Len(sizes)
               /\ ch'[i].err => /\ i = Len(ch') /\ producer = "done"
                                /\ token = ch'[i].n /\ Justified(ch'[i].n)
    <3>1. /\ ch'[i] = ch[i + 1] /\ i + 1 \in 1..Len(ch) /\ i \in Nat
      BY <1>2, <2>1
    <3>2. /\ ch[i + 1].n = page.n + (i + 1)
          /\ ~ch[i + 1].err => ch[i + 1].n <= Len(sizes)
          /\ ch[i + 1].err => /\ i + 1 = Len(ch) /\ producer = "done"
                              /\ token = ch[i + 1].n /\ Justified(ch[i + 1].n)
      BY <1>0, <3>1 DEF ChanLaw
    <3>3. page.n + (i + 1) = page'.n + i /\ (i + 1 = Len(ch) => i = Len(ch'))
      <4>1. /\ i \in Nat /\ page.n \in Nat /\ page'.n = page.n + 1
            /\ Len(ch) \in Nat /\ Len(ch') = Len(ch) - 1
        BY <1>2, <1>3, <3>1
      <4> QED
        BY <4>1
    <3> QED
      BY <3>1, <3>2, <3>3
  <2> QED
    BY <1>1, <2>1 DEF ChanLaw, Justified
<1>8. HandLaw'
  BY <1>0, <1>1 DEF HandLaw, Justified
<1>9. CloseLaw'
  <2>1. ASSUME ch[Len(ch)].err
        PROVE  ch' # <<>> /\ ch'[Len(ch')].err
    <3>1. Len(ch) # 1
      BY <1>2, <2>1
    <3>2. Len(ch') \in 1..Len(ch') /\ Len(ch') + 1 = Len(ch)
      BY <1>2, <3>1
    <3> QED
      BY <1>2, <2>1, <3>2
  <2> QED
    BY <1>0, <1>1, <1>5, <2>1 DEF CloseLaw
<1>10. WalkLaw'
  <2>1. W!Items' = W!Items /\ W!Delivered' = W!Delivered
    BY <1>1, SetsStay
  <2>2. W!Delivered = Ahead(page.n + 1, 1)
    BY <1>0, <1>1, <1>3, PageStarts DEF WalkLaw
  <2>3. W!Delivered' = Ahead(page.n, idx)'
    BY <1>1, <1>2, <2>1, <2>2 DEF Ahead
  <2>4. page'.n >= 1
    BY <1>2, <1>3
  <2> QED
    BY <1>0, <1>1, <2>3, <2>4 DEF WalkLaw
<1> QED
  BY <1>4, <1>6, <1>7, <1>8, <1>9, <1>10 DEF PInv

\* A failure is received: nothing is behind it.
LEMMA ReceiveErrorStep ==
    ASSUME PInv, Receive, Head(ch).err
    PROVE  PInv'
<1>0. PTypes /\ TokenLaw /\ ChanLaw
  BY DEF PInv
<1>1. ch # <<>> /\ ch' = Tail(ch) /\ Return("error")
  BY DEF Receive
<1>2. /\ Len(ch) = 1 /\ Head(ch) = ch[1] /\ Head(ch).n = page.n + 1
      /\ ch' \in Seq(Pages) /\ Len(ch') = Len(ch) - 1
  BY <1>0, <1>1, HeadOfChannel
<1>3. ch' = <<>>
  BY <1>2
<1>4. producer = "done" /\ token = page.n + 1
  BY <1>0, <1>2 DEF ChanLaw
<1>5. token <= page.n + 1
  BY <1>0, <1>4 DEF PTypes
<1>6. yielded' \in Seq(Nat \X Nat)
  BY <1>0 DEF Receive, PTypes
<1> QED
  BY <1>1, <1>3, <1>4, <1>5, <1>6, ReturnStep DEF Receive, Return

\* The walk goes on: Iter's check passes.
LEMMA CheckStep ==
    ASSUME PInv, CheckContext, ~cancelled
    PROVE  PInv'
<1>0. PTypes /\ TokenLaw /\ ChanLaw /\ HandLaw /\ CloseLaw /\ WalkLaw
  BY DEF PInv
<1>1. /\ consumer = "check" /\ consumer' = "fetch"
      /\ UNCHANGED <<lookahead, sizes, fails, cancelled, producer, hand, token, ch,
                      closed, page, idx, yielded, end>>
  BY DEF CheckContext, server, prodVars
<1>2. PTypes' /\ TokenLaw'
  BY <1>0, <1>1 DEF PTypes, TokenLaw
<1>3. ChanLaw' /\ HandLaw' /\ CloseLaw'
  BY <1>0, <1>1 DEF ChanLaw, HandLaw, CloseLaw, Justified
<1>4. WalkLaw'
  BY <1>0, <1>1, SetsStay DEF WalkLaw, UpTo
<1> QED
  BY <1>2, <1>3, <1>4 DEF PInv

\* Iter's fetch returns a page.
LEMMA IterPageStep ==
    ASSUME PInv, NEW p \in FetchPage(cancelled), ~p.err, consumer = "fetch",
           consumer' = "yield", page' = p, idx' = 1,
           UNCHANGED <<server, cancelled, prodVars, token, ch, closed, yielded, end>>
    PROVE  PInv'
<1>0. PTypes /\ TokenLaw /\ ChanLaw /\ HandLaw /\ CloseLaw /\ WalkLaw
  BY DEF PInv
<1>1. UNCHANGED <<lookahead, sizes, fails, producer, hand>>
  BY DEF server, prodVars
<1>2. p \in Pages /\ p.n = token /\ p.n <= Len(sizes)
  BY <1>0, FetchReturns DEF TokenLaw, PTypes
<1>3. lookahead = 0 /\ token = page.n + 1 /\ producer = "done" /\ ch = <<>>
  BY <1>0 DEF TokenLaw
<1>4. PTypes'
  <2>1. 1 \in 1..MaxItems + 1
    BY PaginationAssumption
  <2> QED
    BY <1>0, <1>1, <1>2, <2>1 DEF PTypes
<1>5. TokenLaw'
  BY <1>0, <1>1, <1>2, <1>3 DEF TokenLaw
<1>6. ChanLaw' /\ HandLaw' /\ CloseLaw'
  <2>1. ~closed'
    BY <1>0, <1>3 DEF TokenLaw
  <2>2. Len(ch') = 0
    BY <1>3
  <2> QED
    BY <1>1, <1>3, <2>1, <2>2 DEF ChanLaw, HandLaw, CloseLaw
<1>7. WalkLaw'
  <2>1. W!Items' = W!Items /\ W!Delivered' = W!Delivered
    BY <1>1, SetsStay
  <2>2. page.n \in Nat
    BY <1>0 DEF PTypes, Pages
  <2>3. W!Delivered = Ahead(page.n + 1, 1)
    BY <1>0, <2>2, PageStarts DEF WalkLaw
  <2>4. W!Delivered' = Ahead(page.n, idx)'
    BY <1>2, <1>3, <2>1, <2>3 DEF Ahead
  <2>5. page'.n >= 1
    BY <1>2, <1>3, <2>2
  <2> QED
    BY <1>0, <2>4, <2>5 DEF WalkLaw
<1> QED
  BY <1>4, <1>5, <1>6, <1>7 DEF PInv

\* An item is yielded: what is seen, and where the walk is then.
LEMMA YieldFacts ==
    ASSUME PInv, YieldItem
    PROVE  /\ page.n \in 1..Len(sizes) /\ idx \in 1..sizes[page.n] /\ idx \in Nat
           /\ sizes[page.n] <= MaxItems /\ sizes[page.n] \in Nat
           /\ <<page.n, idx>> \in W!Items
           /\ W!Delivered = Ahead(page.n, idx)
           /\ W!Delivered' = Ahead(page.n, idx + 1)
           /\ yielded' \in Seq(Nat \X Nat)
<1>0. PTypes /\ WalkLaw
  BY DEF PInv
<1>1. /\ consumer = "yield" /\ idx <= sizes[page.n]
      /\ yielded' = Append(yielded, <<page.n, idx>>)
  BY DEF YieldItem
<1>2. /\ page.n \in Nat /\ Len(sizes) \in Nat /\ page.n \in 1..Len(sizes)
      /\ W!Delivered = Ahead(page.n, idx)
  BY <1>0, <1>1 DEF PTypes, WalkLaw, Pages
<1>3. sizes[page.n] \in 0..MaxItems /\ idx \in 1..MaxItems + 1
  <2>1. sizes \in Seq(0..MaxItems) /\ idx \in 1..MaxItems + 1
    BY <1>0 DEF PTypes
  <2>2. \A p \in 1..Len(sizes) : sizes[p] \in 0..MaxItems
    BY <2>1, PaginationAssumption
  <2> QED
    BY <1>2, <2>1, <2>2
<1>4. /\ sizes[page.n] \in Nat /\ sizes[page.n] <= MaxItems
      /\ idx \in 1..sizes[page.n] /\ idx \in Nat
  BY <1>1, <1>3, PaginationAssumption
<1>5. /\ <<page.n, idx>> \in W!Items
      /\ Ahead(page.n, idx) \cup {<<page.n, idx>>} = Ahead(page.n, idx + 1)
  BY <1>0, <1>2, <1>4, ItemFollows
<1>6. W!Delivered' = W!Delivered \cup {<<page.n, idx>>} /\ yielded' \in Seq(Nat \X Nat)
  BY <1>0, <1>1, <1>2, <1>4, DeliveredGrows
<1> QED
  BY <1>2, <1>4, <1>5, <1>6

\* An item is yielded and the loop goes on.
LEMMA YieldGoesOnStep ==
    ASSUME PInv, YieldItem, idx' = idx + 1, UNCHANGED <<consumer, end>>
    PROVE  PInv'
<1>0. PTypes /\ TokenLaw /\ ChanLaw /\ HandLaw /\ CloseLaw /\ WalkLaw
  BY DEF PInv
<1>1. /\ consumer = "yield"
      /\ UNCHANGED <<lookahead, sizes, fails, cancelled, producer, hand, token, ch,
                      closed, page>>
  BY DEF YieldItem, server, prodVars
<1>2. idx' \in 1..MaxItems + 1 /\ yielded' \in Seq(Nat \X Nat)
  <2>1. /\ idx \in Nat /\ idx \in 1..sizes[page.n]
        /\ sizes[page.n] <= MaxItems /\ sizes[page.n] \in Nat
    BY YieldFacts
  <2>2. idx' \in 1..MaxItems + 1
    BY <2>1, PaginationAssumption
  <2> QED
    BY <2>2, YieldFacts
<1>3. PTypes'
  BY <1>0, <1>1, <1>2 DEF PTypes
<1>4. TokenLaw'
  BY <1>0, <1>1 DEF TokenLaw
<1>5. ChanLaw' /\ HandLaw' /\ CloseLaw'
  BY <1>0, <1>1 DEF ChanLaw, HandLaw, CloseLaw, Justified
<1>6. WalkLaw'
  <2>1. W!Items' = W!Items
    BY <1>1 DEF W!Items
  <2>2. W!Delivered' = Ahead(page.n, idx)'
    BY <1>1, <2>1, YieldFacts DEF Ahead
  <2> QED
    BY <1>0, <1>1, <2>2 DEF WalkLaw
<1> QED
  BY <1>3, <1>4, <1>5, <1>6 DEF PInv

\* A page is done: what is seen.
LEMMA PageDoneFacts ==
    ASSUME PInv, PageDone
    PROVE  page.n \in 1..Len(sizes) /\ page.n \in Nat /\ W!Delivered = UpTo(page.n)
<1>0. PTypes /\ WalkLaw
  BY DEF PInv
<1>1. consumer = "yield" /\ idx > sizes[page.n]
  BY DEF PageDone
<1>2. /\ page.n \in Nat /\ Len(sizes) \in Nat /\ page.n \in 1..Len(sizes)
      /\ W!Delivered = Ahead(page.n, idx)
  BY <1>0, <1>1 DEF PTypes, WalkLaw, Pages
<1>3. idx \in Nat
  BY <1>0, PaginationAssumption DEF PTypes
<1> QED
  BY <1>0, <1>1, <1>2, <1>3, PageEnds

\* A page is done and the walk goes on.
LEMMA PageDoneStep ==
    ASSUME PInv, PageDone, consumer' # "returned"
    PROVE  PInv'
<1>0. PTypes /\ TokenLaw /\ ChanLaw /\ HandLaw /\ CloseLaw /\ WalkLaw
  BY DEF PInv
<1>1. /\ consumer = "yield"
      /\ UNCHANGED <<lookahead, sizes, fails, cancelled, producer, hand, ch, closed,
                      page, idx, yielded>>
  BY DEF PageDone, server, prodVars
<1>2. \/ lookahead >= 1 /\ consumer' = "recv" /\ token' = token /\ end' = end
      \/ /\ lookahead < 1 /\ ~lastPage(page) /\ token' = token + 1
         /\ consumer' = "check" /\ end' = end
  BY DEF PageDone, Return
<1>3. end' = end /\ token \in Nat /\ Len(sizes) \in Nat /\ lookahead \in Nat
  BY <1>0, <1>2 DEF PTypes
<1>4. PTypes'
  BY <1>0, <1>1, <1>2, <1>3 DEF PTypes
<1>5. TokenLaw'
  <2>1. CASE lookahead >= 1 /\ consumer' = "recv" /\ token' = token
    BY <1>0, <1>1, <1>3, <2>1 DEF TokenLaw
  <2>2. CASE lookahead < 1 /\ ~lastPage(page) /\ token' = token + 1 /\ consumer' = "check"
    <3>1. lookahead = 0 /\ token = page.n
      BY <1>0, <1>1, <1>3, <2>2 DEF TokenLaw
    <3>2. token <= Len(sizes) /\ (token = Len(sizes) => fails)
      BY <1>0, <2>2, <3>1 DEF PTypes, lastPage
    <3>3. token' <= Len(sizes) + 1 /\ (token' = Len(sizes) + 1 => fails)
      BY <1>3, <2>2, <3>2
    <3> QED
      BY <1>0, <1>1, <2>2, <3>1, <3>3 DEF TokenLaw
  <2> QED
    BY <1>2, <2>1, <2>2
<1>6. ChanLaw'
  <2>1. CASE token' = token
    BY <1>0, <1>1, <2>1 DEF ChanLaw, Justified
  <2>2. CASE ch = <<>>
    BY <1>1, <2>2 DEF ChanLaw
  <2> QED
    BY <1>0, <1>2, <1>3, <2>1, <2>2 DEF TokenLaw
<1>7. HandLaw'
  <2>1. CASE token' = token
    BY <1>0, <1>1, <2>1 DEF HandLaw, Justified
  <2>2. CASE producer = "done"
    BY <1>1, <2>2 DEF HandLaw
  <2> QED
    BY <1>0, <1>2, <1>3, <2>1, <2>2 DEF TokenLaw
<1>8. CloseLaw'
  BY <1>0, <1>1 DEF CloseLaw
<1>9. WalkLaw'
  <2>1. W!Items' = W!Items /\ W!Delivered' = W!Delivered
    BY <1>1, SetsStay
  <2>2. W!Delivered' = UpTo(page.n)'
    BY <1>1, <2>1, PageDoneFacts DEF UpTo
  <2> QED
    BY <1>0, <1>1, <1>2, <2>2 DEF WalkLaw
<1> QED
  BY <1>4, <1>5, <1>6, <1>7, <1>8, <1>9 DEF PInv

\* The caller cancels, or nothing happens.
LEMMA CancelStep ==
    ASSUME PInv, cancelled' \in {TRUE, cancelled},
           UNCHANGED <<server, prodVars, token, ch, closed, consumer, page, idx, yielded,
                       end>>
    PROVE  PInv'
<1>0. PTypes /\ TokenLaw /\ ChanLaw /\ HandLaw /\ CloseLaw /\ WalkLaw
  BY DEF PInv
<1>1. /\ UNCHANGED <<lookahead, sizes, fails, producer, hand>>
      /\ cancelled => cancelled'
      /\ cancelled' \in BOOLEAN
  BY <1>0 DEF server, prodVars, PTypes
<1>2. PTypes'
  BY <1>0, <1>1 DEF PTypes
<1>3. TokenLaw' /\ WalkLaw'
  BY <1>0, <1>1, WalkStays DEF TokenLaw
<1>4. ChanLaw'
  BY <1>0, <1>1 DEF ChanLaw, Justified
<1>5. HandLaw' /\ CloseLaw'
  BY <1>0, <1>1 DEF HandLaw, CloseLaw, Justified
<1> QED
  BY <1>2, <1>3, <1>4, <1>5 DEF PInv

\* Every step preserves the invariant.
LEMMA NextPInv == PInv /\ [Next]_vars => PInv'
<1> SUFFICES ASSUME PInv, [Next]_vars
             PROVE  PInv'
  OBVIOUS
<1>0. yielded \in Seq(Nat \X Nat)
  BY DEF PInv, PTypes
<1>1. CASE ProducerStep
  BY <1>1, ProducerFetchStep, ProducerSendStep, ProducerCancelledStep DEF ProducerStep
<1>2. CASE Receive
  BY <1>2, ReceivePageStep, ReceiveErrorStep
<1>3. CASE ReceiveClosed
  BY <1>0, <1>3, ReturnStep DEF ReceiveClosed, Return
<1>4. CASE CheckContext
  BY <1>0, <1>4, CheckStep, ReturnStep DEF CheckContext, Return
<1>5. CASE IterFetch
  <2>1. PICK p \in FetchPage(cancelled) :
          IF p.err
          THEN Return("error") /\ UNCHANGED <<page, idx>>
          ELSE consumer' = "yield" /\ page' = p /\ idx' = 1 /\ UNCHANGED end
    BY <1>5 DEF IterFetch
  <2>2. CASE p.err
    BY <1>0, <1>5, <2>1, <2>2, ReturnStep DEF IterFetch, Return
  <2>3. CASE ~p.err
    BY <1>5, <2>1, <2>3, IterPageStep DEF IterFetch
  <2> QED
    BY <2>2, <2>3
<1>6. CASE YieldItem
  <2>1. CASE idx' = idx + 1 /\ UNCHANGED <<consumer, end>>
    BY <1>6, <2>1, YieldGoesOnStep
  <2>2. CASE Return("break") /\ UNCHANGED idx
    <3>1. yielded' \in Seq(Nat \X Nat)
      BY <1>6, YieldFacts
    <3> QED
      BY <1>6, <2>2, <3>1, ReturnStep DEF YieldItem, Return
  <2> QED
    BY <1>6, <2>1, <2>2 DEF YieldItem
<1>7. CASE PageDone
  <2>1. CASE consumer' # "returned"
    BY <1>7, <2>1, PageDoneStep
  <2>2. CASE Return("complete") /\ UNCHANGED token
    BY <1>0, <1>7, <2>2, ReturnStep DEF PageDone, Return
  <2> QED
    BY <1>7, <2>1, <2>2 DEF PageDone
<1>8. CASE CancelContext \/ UNCHANGED vars
  BY <1>8, CancelStep DEF CancelContext, vars
<1> QED
  BY <1>1, <1>2, <1>3, <1>4, <1>5, <1>6, <1>7, <1>8 DEF Next, ConsumerStep, Done

\* PInv is an invariant.
LEMMA PaginationInvariance == Spec => []PInv
  BY InitPInv, NextPInv, PTL DEF Spec

-----------------------------------------------------------------------------
(* The steps of the walk.                                                     *)

\* An item that the loop sees is the walk's next one.
LEMMA YieldIsDeliver ==
    ASSUME PInv, YieldItem
    PROVE  W!Deliver
<1>1. /\ consumer = "yield" /\ yielded' = Append(yielded, <<page.n, idx>>)
      /\ UNCHANGED <<sizes, fails, cancelled>>
  BY DEF YieldItem, server
<1>2. end = "no" /\ end' \in {"no", "break"}
  BY <1>1 DEF PInv, WalkLaw, YieldItem, Return
<1>3. /\ <<page.n, idx>> \in W!Items
      /\ W!Delivered = {y \in W!Items : W!Before(y, <<page.n, idx>>)}
  BY YieldFacts DEF Ahead
<1> QED
  BY <1>1, <1>2, <1>3 DEF W!Deliver

\* The walk ends with an error that nobody has to explain when it was
\* cancelled, and behind the last page.
LEMMA ErrorIsError ==
    ASSUME PInv, consumer \in {"recv", "check", "fetch"}, Return("error"),
           cancelled \/ (fails /\ page.n = Len(sizes)),
           UNCHANGED <<sizes, fails, cancelled, yielded>>
    PROVE  W!Error
<1>0. PTypes /\ WalkLaw
  BY DEF PInv
<1>1. end = "no" /\ end' = "error" /\ W!Delivered = UpTo(page.n)
  BY <1>0 DEF WalkLaw, Return
<1>2. page.n \in 0..Len(sizes)
  BY <1>0 DEF PTypes, Pages
<1>3. W!AtBoundary(page.n)
  BY <1>1 DEF UpTo, W!AtBoundary
<1>4. page.n = Len(sizes) => W!Delivered = W!Items
  BY <1>0, <1>1, AllPages
<1> QED
  BY <1>1, <1>2, <1>3, <1>4 DEF W!Error

\* A failure that is received: its cause.
LEMMA ReceiveErrorIsError ==
    ASSUME PInv, Receive, Head(ch).err
    PROVE  W!Error
<1>0. PTypes /\ TokenLaw /\ ChanLaw
  BY DEF PInv
<1>1. /\ consumer = "recv" /\ ch # <<>> /\ Return("error")
      /\ UNCHANGED <<sizes, fails, cancelled, yielded>>
  BY DEF Receive, server
<1>2. /\ Head(ch) = ch[1] /\ Head(ch).n = page.n + 1 /\ 1 \in 1..Len(ch)
  BY <1>0, <1>1, HeadOfChannel
<1>3. token = page.n + 1 /\ Justified(page.n + 1)
  BY <1>0, <1>2 DEF ChanLaw
<1>4. cancelled \/ page.n + 1 = Len(sizes) + 1
  BY <1>1, <1>3 DEF Justified
<1>5. ASSUME page.n + 1 = Len(sizes) + 1
      PROVE  fails /\ page.n = Len(sizes)
  <2>1. page.n \in Nat /\ Len(sizes) \in Nat
    BY <1>0 DEF PTypes, Pages
  <2>2. page.n = Len(sizes)
    BY <1>5, <2>1
  <2> QED
    BY <1>0, <1>3, <1>5, <2>2 DEF TokenLaw
<1> QED
  BY <1>1, <1>4, <1>5, ErrorIsError

\* Iter's fetch fails: its cause.
LEMMA IterErrorIsError ==
    ASSUME PInv, consumer = "fetch", NEW p \in FetchPage(cancelled), p.err,
           Return("error"), UNCHANGED <<sizes, fails, cancelled, yielded>>
    PROVE  W!Error
<1>0. PTypes /\ TokenLaw
  BY DEF PInv
<1>1. /\ p.n = token /\ (cancelled \/ p.n = Len(sizes) + 1)
  BY <1>0, FetchReturns DEF TokenLaw, PTypes
<1>2. token = page.n + 1
  <2>1. lookahead = 0
    BY <1>0 DEF TokenLaw
  <2> QED
    BY <1>0, <2>1 DEF TokenLaw
<1>3. ASSUME p.n = Len(sizes) + 1
      PROVE  fails /\ page.n = Len(sizes)
  <2>1. page.n \in Nat /\ Len(sizes) \in Nat
    BY <1>0 DEF PTypes, Pages
  <2>2. page.n = Len(sizes)
    BY <1>1, <1>2, <1>3, <2>1
  <2>3. fails
    BY <1>0, <1>1, <1>3 DEF TokenLaw
  <2> QED
    BY <2>2, <2>3
<1> QED
  BY <1>1, <1>3, ErrorIsError

\* A drained channel: the walk is complete, or was cancelled.
LEMMA ClosedIsWalkStep ==
    ASSUME PInv, ReceiveClosed
    PROVE  W!Complete \/ W!Silent
<1>0. PTypes /\ CloseLaw /\ WalkLaw
  BY DEF PInv
<1>1. /\ consumer = "recv" /\ ch = <<>> /\ closed
      /\ UNCHANGED <<sizes, fails, cancelled, yielded>>
      /\ end' = IF ~fails /\ page.n = Len(sizes) THEN "complete" ELSE "silent"
  BY DEF ReceiveClosed, Return, server
<1>2. end = "no" /\ W!Delivered = UpTo(page.n)
  BY <1>0, <1>1 DEF WalkLaw
<1>3. cancelled \/ (page.n = Len(sizes) /\ ~fails)
  <2>1. page.n + Len(ch) = page.n /\ Len(ch) = 0
    BY <1>0, <1>1 DEF PTypes, Pages
  <2> QED
    BY <1>0, <1>1, <2>1 DEF CloseLaw
<1>4. page.n \in 0..Len(sizes)
  BY <1>0 DEF PTypes, Pages
<1>5. CASE ~fails /\ page.n = Len(sizes)
  <2>1. W!Delivered = W!Items
    BY <1>0, <1>2, <1>5, AllPages
  <2> QED
    BY <1>1, <1>2, <1>5, <2>1 DEF W!Complete
<1>6. CASE ~(~fails /\ page.n = Len(sizes))
  <2>1. W!AtBoundary(page.n) /\ cancelled
    BY <1>2, <1>3, <1>6 DEF W!AtBoundary, UpTo
  <2>2. end' = "silent"
    BY <1>1, <1>6
  <2> QED
    BY <1>1, <1>2, <1>4, <2>1, <2>2 DEF W!Silent
<1> QED
  BY <1>5, <1>6

\* Iter's last page is done.
LEMMA LastPageIsComplete ==
    ASSUME PInv, PageDone, lastPage(page), Return("complete")
    PROVE  W!Complete
<1>0. PTypes /\ WalkLaw
  BY DEF PInv
<1>1. consumer = "yield" /\ UNCHANGED <<sizes, fails, cancelled, yielded>>
  BY DEF PageDone, server
<1>2. end = "no" /\ end' = "complete"
  BY <1>0, <1>1 DEF WalkLaw, Return
<1>3. W!Delivered = W!Items
  BY <1>0, PageDoneFacts, AllPages DEF lastPage
<1> QED
  BY <1>1, <1>2, <1>3 DEF W!Complete, lastPage

\* Every step is a step of the walk or invisible to the loop.
LEMMA StepIsWalkStep ==
    ASSUME PInv, [Next]_vars
    PROVE  [W!Deliver \/ W!Complete \/ W!Error \/ W!Silent \/ W!Cancelled]_(W!walkVars)
<1>1. CASE ProducerStep \/ UNCHANGED vars
  BY <1>1 DEF ProducerStep, ProducerFetch, ProducerSend, ProducerCancelled, server, vars,
              W!walkVars
<1>2. CASE Receive
  <2>1. CASE Head(ch).err
    BY <1>2, <2>1, ReceiveErrorIsError
  <2>2. CASE ~Head(ch).err
    BY <1>2, <2>2 DEF Receive, server, W!walkVars
  <2> QED
    BY <2>1, <2>2
<1>3. CASE ReceiveClosed
  BY <1>3, ClosedIsWalkStep
<1>4. CASE CheckContext
  <2>1. CASE cancelled
    BY <1>4, <2>1, ErrorIsError DEF CheckContext, server
  <2>2. CASE ~cancelled
    BY <1>4, <2>2 DEF CheckContext, server, W!walkVars
  <2> QED
    BY <2>1, <2>2
<1>5. CASE IterFetch
  <2>1. PICK p \in FetchPage(cancelled) :
          IF p.err
          THEN Return("error") /\ UNCHANGED <<page, idx>>
          ELSE consumer' = "yield" /\ page' = p /\ idx' = 1 /\ UNCHANGED end
    BY <1>5 DEF IterFetch
  <2>2. CASE p.err
    BY <1>5, <2>1, <2>2, IterErrorIsError DEF IterFetch, server
  <2>3. CASE ~p.err
    BY <1>5, <2>1, <2>3 DEF IterFetch, server, W!walkVars
  <2> QED
    BY <2>2, <2>3
<1>6. CASE YieldItem
  BY <1>6, YieldIsDeliver
<1>7. CASE PageDone
  <2>1. CASE lastPage(page) /\ Return("complete")
    BY <1>7, <2>1, LastPageIsComplete
  <2>2. CASE UNCHANGED end
    BY <1>7, <2>2 DEF PageDone, server, W!walkVars
  <2> QED
    BY <1>7, <2>1, <2>2 DEF PageDone
<1>8. CASE CancelContext
  BY <1>8 DEF CancelContext, server, W!Cancelled
<1> QED
  BY <1>1, <1>2, <1>3, <1>4, <1>5, <1>6, <1>7, <1>8 DEF Next, ConsumerStep, Done

-----------------------------------------------------------------------------
(* The theorems.                                                              *)

\* Types; the channel is never fuller than the lookahead, and closed only by a
\* producer that is through.
THEOREM TypeCorrect == Spec => []TypeOK
<1>1. PInv => TypeOK
  <2> SUFFICES ASSUME PInv PROVE TypeOK
    OBVIOUS
  <2>0. PTypes /\ TokenLaw
    BY DEF PInv
  <2>1. token \in 1..MaxPages + 1 /\ page.n \in 0..Len(sizes)
    <3>1. /\ token \in Nat /\ token >= 1 /\ token <= Len(sizes) + 1
          /\ Len(sizes) \in Nat /\ Len(sizes) <= MaxPages
          /\ page.n \in Nat /\ page.n <= Len(sizes)
      BY <2>0 DEF PTypes, TokenLaw, Pages
    <3> QED
      BY <3>1, PaginationAssumption
  <2>2. Len(ch) <= lookahead
    <3>1. CASE lookahead = 0
      BY <2>0, <3>1 DEF TokenLaw
    <3>2. CASE lookahead # 0
      BY <2>0, <3>2 DEF TokenLaw
    <3> QED
      BY <3>1, <3>2
  <2> QED
    BY <2>0, <2>1, <2>2 DEF TypeOK, PTypes, TokenLaw
<1> QED
  BY <1>1, PaginationInvariance, PTL

\* The producer is never further ahead of the loop than the channel's buffer and
\* the page in its hand, for every lookahead.
THEOREM PrefetchIsBounded == Spec => []PrefetchBounded
<1>1. PInv => PrefetchBounded
  <2> SUFFICES ASSUME PInv, lookahead >= 1
               PROVE  token <= page.n + lookahead + 1
    BY DEF PrefetchBounded
  <2>1. PTypes /\ TokenLaw
    BY DEF PInv
  <2>2. lookahead # 0
    BY <2>1 DEF PTypes
  <2>3. /\ token \in Nat /\ page.n \in Nat /\ Len(ch) \in Nat /\ lookahead \in Nat
        /\ Len(ch) <= lookahead /\ token <= page.n + Len(ch) + 1
    BY <2>1, <2>2 DEF PTypes, TokenLaw, Pages
  <2> QED
    BY <2>3
<1> QED
  BY <1>1, PaginationInvariance, PTL

\* To the loop both iterators are walks over the pages: items arrive in order,
\* none twice and none skipped, and an error from page N comes after all the
\* items of the pages before it.
THEOREM IteratorsAreWalks == Spec => ImplementsPageWalk
<1>1. Init => W!WInit
  BY DEF Init, W!WInit
<1> QED
  BY <1>1, StepIsWalkStep, PaginationInvariance, PTL DEF Spec, ImplementsPageWalk, W!WSpec
=============================================================================
