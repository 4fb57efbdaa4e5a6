------------------------------- MODULE KitSync -------------------------------
(***************************************************************************)
(* A tribe's kits and the campaigns linked to them.  A linked campaign     *)
(* carries the kit's products and may override its price; editing the kit  *)
(* brings its campaigns in line one by one, without a transaction.  A      *)
(* clerk is one request; its checks and its writes are separate round      *)
(* trips.                                                                  *)
(***************************************************************************)
EXTENDS Integers, FiniteSets, Functions

CONSTANTS
    Kits, Campaigns,
    KitProducts,   \* the tribe's products
    Cost,          \* Cost[p]: production cost of p in a kit
    Prices,        \* prices that may be asked
    NoPrice, NoKit,
    Keep,          \* a field the request leaves out
    Clerks,
    ShelfDeaths,   \* bound on the requests that die half way
    KitSerial      \* values of oneClerk

ASSUME KitAssumption ==
    /\ Prices \subseteq Nat /\ NoPrice \notin Prices /\ NoKit \notin Kits
    /\ IsFiniteSet(KitProducts) /\ \A p \in KitProducts : Cost[p] \in Nat
    /\ Keep \notin Kits /\ Keep \notin Prices /\ Keep \notin {NoKit, NoPrice}
    /\ Keep \notin BOOLEAN /\ Keep \notin {"ACTIVE", "STOPPED"} /\ \A P \in SUBSET KitProducts : Keep # P
    /\ ShelfDeaths \in Nat /\ KitSerial \subseteq BOOLEAN

VARIABLES
    live,       \* the products that are not deleted
    kit,        \* kit[k]: [exists, items, price, active, deleted]
    campaign,   \* campaign[c]: [exists, kit, price, products, status]
    clerk,      \* clerk[w]: where request w stands and what it read
    torn,       \* kits to be saved again: a sync died half way, or a product came back
    oneClerk,   \* whether a request waits for the one before it to end
    shelfDied

kitVars == <<live, kit, campaign, clerk, torn, oneClerk, shelfDied>>

NewKit == [exists |-> FALSE, items |-> {}, price |-> NoPrice, active |-> TRUE, deleted |-> FALSE]
NewCampaign == [exists |-> FALSE, kit |-> NoKit, price |-> NoPrice, products |-> {}, status |-> "ACTIVE"]
Idle == [pc |-> "idle", kit |-> NoKit, camp |-> NoKit, items |-> {}, live |-> {}, price |-> NoPrice,
         active |-> Keep, was |-> NewKit, had |-> NewCampaign, status |-> Keep, left |-> {},
         set |-> NewCampaign]

KitTypeOK ==
    /\ live \subseteq KitProducts /\ torn \subseteq Kits
    /\ \A k \in Kits : kit[k].items \subseteq KitProducts /\ kit[k].price \in Prices \cup {NoPrice}
    /\ \A c \in Campaigns :
         /\ campaign[c].kit \in Kits \cup {NoKit} /\ campaign[c].price \in Prices \cup {NoPrice}
         /\ campaign[c].products \subseteq KitProducts
         /\ campaign[c].status \in {"ACTIVE", "STOPPED"}
    /\ \A w \in Clerks : clerk[w].pc \in
         {"idle", "active", "prices", "save", "sync", "remove", "asked", "load", "write"}

KitInit ==
    /\ live = KitProducts
    /\ kit = [k \in Kits |-> NewKit] /\ campaign = [c \in Campaigns |-> NewCampaign]
    /\ clerk = [w \in Clerks |-> Idle]
    /\ torn = {} /\ oneClerk \in KitSerial /\ shelfDied = 0

minPrice(items) == SumFunctionOnSet(Cost, items)
AtLeast(price, min) == price # NoPrice => price >= min
Given(v, old) == IF v = Keep THEN old ELSE v
Linked(k) == {c \in Campaigns : campaign[c].exists /\ campaign[c].kit = k}
Running(k) == {c \in Linked(k) : campaign[c].status # "STOPPED"}
\* Not in the code: what oneClerk assumes of the requests.
MayStart(w) ==
    clerk[w].pc = "idle" /\ (oneClerk => \A v \in Clerks : clerk[v].pc = "idle")
Ends(w) == clerk' = [clerk EXCEPT ![w] = Idle]

-----------------------------------------------------------------------------
\* tribe-kits.service
CreateKit(w) ==
    /\ MayStart(w)
    /\ \E k \in Kits, items \in SUBSET live, price \in Prices \cup {NoPrice},
          active \in BOOLEAN :
         /\ ~kit[k].exists /\ items # {} /\ AtLeast(price, minPrice(items))
         /\ kit' = [kit EXCEPT ![k] = [NewKit EXCEPT !.exists = TRUE, !.items = items, !.price = price,
                                                     !.active = active]]
    /\ UNCHANGED <<live, campaign, clerk, torn, oneClerk, shelfDied>>

\* The kit and its products are read; the new price clears the new floor.
BeginKitEdit(w) ==
    /\ MayStart(w)
    /\ \E k \in Kits, items \in (SUBSET live) \cup {Keep}, price \in Prices \cup {NoPrice, Keep},
          active \in {TRUE, FALSE, Keep} :
         LET its == Given(items, kit[k].items)
             asked == Given(price, kit[k].price)
         IN  /\ kit[k].exists /\ ~kit[k].deleted /\ items # {}
             /\ AtLeast(asked, minPrice(its \cap live))
             /\ clerk' = [clerk EXCEPT ![w] = [Idle EXCEPT !.pc = "active", !.kit = k, !.items = its,
                   !.live = its \cap live, !.price = asked, !.active = active, !.was = kit[k]]]
    /\ UNCHANGED <<live, kit, campaign, torn, oneClerk, shelfDied>>

CheckActive(w) ==
    LET q == clerk[w]
        blocked == q.active = FALSE /\ q.was.active /\ Running(q.kit) # {}
    IN  /\ q.pc = "active"
        /\ IF blocked THEN Ends(w) ELSE clerk' = [clerk EXCEPT ![w].pc = "prices", ![w].was = NewKit]
        /\ UNCHANGED <<live, kit, campaign, torn, oneClerk, shelfDied>>

\* Faulty variant: the prices of stopped campaigns are not looked at.
CheckRunningPrices(w) ==
    LET q == clerk[w]
        tooLow == {c \in Running(q.kit) : ~AtLeast(campaign[c].price, minPrice(q.live))}
    IN  /\ q.pc = "prices"
        /\ IF tooLow # {} THEN Ends(w) ELSE clerk' = [clerk EXCEPT ![w].pc = "save"]
        /\ UNCHANGED <<live, kit, campaign, torn, oneClerk, shelfDied>>

\* A campaign's own price must clear the new floor.
CheckPrices(w) ==
    LET q == clerk[w]
        tooLow == {c \in Linked(q.kit) : ~AtLeast(campaign[c].price, minPrice(q.live))}
    IN  /\ q.pc = "prices"
        /\ IF tooLow # {} THEN Ends(w) ELSE clerk' = [clerk EXCEPT ![w].pc = "save"]
        /\ UNCHANGED <<live, kit, campaign, torn, oneClerk, shelfDied>>

SaveKit(w) ==
    LET q == clerk[w] IN
    /\ q.pc = "save"
    /\ IF kit[q.kit].deleted THEN Ends(w) /\ UNCHANGED kit
       ELSE /\ kit' = [kit EXCEPT ![q.kit].items = q.items, ![q.kit].price = q.price,
                                  ![q.kit].active = Given(q.active, @)]
            /\ clerk' = [clerk EXCEPT ![w] = [Idle EXCEPT !.pc = "sync", !.kit = q.kit,
                                              !.live = q.live, !.left = Campaigns]]
    /\ UNCHANGED <<live, campaign, torn, oneClerk, shelfDied>>

\* Faulty variant: a stopped campaign is passed over.
SyncRunning(w, c) ==
    LET q == clerk[w] IN
    /\ q.pc = "sync" /\ c \in q.left
    /\ clerk' = [clerk EXCEPT ![w].left = @ \ {c}]
    /\ campaign' = IF c \in Running(q.kit) THEN [campaign EXCEPT ![c].products = q.live] ELSE campaign
    /\ UNCHANGED <<live, kit, torn, oneClerk, shelfDied>>

\* The kit's campaigns get its products, one document after the other.
SyncCampaign(w, c) ==
    LET q == clerk[w] IN
    /\ q.pc = "sync" /\ c \in q.left
    /\ clerk' = [clerk EXCEPT ![w].left = @ \ {c}]
    /\ campaign' = IF c \in Linked(q.kit) THEN [campaign EXCEPT ![c].products = q.live] ELSE campaign
    /\ UNCHANGED <<live, kit, torn, oneClerk, shelfDied>>

FinishSync(w) ==
    /\ clerk[w].pc = "sync" /\ clerk[w].left = {}
    /\ torn' = torn \ {clerk[w].kit}
    /\ Ends(w)
    /\ UNCHANGED <<live, kit, campaign, oneClerk, shelfDied>>

BeginRemove(w, k) ==
    /\ MayStart(w) /\ kit[k].exists /\ Running(k) = {}
    /\ clerk' = [clerk EXCEPT ![w] = [Idle EXCEPT !.pc = "remove", !.kit = k]]
    /\ UNCHANGED <<live, kit, campaign, torn, oneClerk, shelfDied>>

RemoveKit(w) ==
    /\ clerk[w].pc = "remove"
    /\ kit' = [kit EXCEPT ![clerk[w].kit] = [@ EXCEPT !.deleted = TRUE, !.active = FALSE]]
    /\ Ends(w)
    /\ UNCHANGED <<live, campaign, torn, oneClerk, shelfDied>>

-----------------------------------------------------------------------------
\* A tribe does not start a stopped campaign again.
TribeMay(had, status) == had.status = "STOPPED" => status \in {"STOPPED", Keep}

\* campaigns.controller: the campaign is read for what a tribe, and not an
\* admin, may ask of it.
AskUpdate(w) ==
    /\ MayStart(w)
    /\ \E c \in Campaigns, status \in {"ACTIVE", "STOPPED", Keep}, admin \in BOOLEAN :
         /\ campaign[c].exists /\ (~admin => TribeMay(campaign[c], status))
         /\ clerk' = [clerk EXCEPT ![w] = [Idle EXCEPT !.pc = "asked", !.camp = c, !.status = status]]
    /\ UNCHANGED <<live, kit, campaign, torn, oneClerk, shelfDied>>

\* campaigns.service: a new campaign, or the asked update, which reads the
\* campaign again.  Without a kit, the products come from the form or stay.
BeginSave(w) ==
    /\ clerk[w].pc \in {"idle", "asked"}
    /\ \E c \in Campaigns, to \in Kits \cup {NoKit, Keep}, price \in Prices \cup {NoPrice, Keep},
          products \in (SUBSET live) \cup {Keep}, status \in {"ACTIVE", "STOPPED", Keep} :
         LET had == campaign[c]
             target == Given(to, had.kit)
             unlinked == target = NoKit /\ had.kit # NoKit
             q == [Idle EXCEPT !.camp = c, !.kit = target, !.price = price, !.had = had,
                               !.status = status]
         IN  /\ IF had.exists THEN clerk[w].pc = "asked" /\ clerk[w].camp = c /\ clerk[w].status = status
                ELSE MayStart(w)
             /\ products # {} /\ (had.exists \/ target # NoKit \/ products # Keep)
             /\ target # NoKit => products = Keep
             /\ target = NoKit => /\ price \in {NoPrice, Keep}
                                  /\ (products = Keep /\ unlinked) => had.products \subseteq live
             /\ clerk' = [clerk EXCEPT ![w] =
                   IF target # NoKit THEN [q EXCEPT !.pc = "load"]
                   ELSE [Idle EXCEPT !.pc = "write", !.camp = c,
                         !.set = [exists |-> TRUE, products |-> products, status |-> status,
                                  kit |-> IF unlinked THEN NoKit ELSE Keep,
                                  price |-> IF unlinked THEN NoPrice ELSE Keep]]]
    /\ UNCHANGED <<live, kit, campaign, torn, oneClerk, shelfDied>>

\* Once a campaign's fields are settled, nothing else of the request is needed.
Writes(w, set) ==
    clerk' = [clerk EXCEPT ![w] = [Idle EXCEPT !.pc = "write", !.camp = clerk[w].camp, !.set = set]]

\* Faulty variant: an existing link is never looked at again.
LoadLinked(w) ==
    LET q == clerk[w]
        k == kit[q.kit]
        relinked == q.kit # q.had.kit
        products == k.items \cap live
        price == IF q.price # Keep THEN q.price ELSE IF relinked THEN NoPrice ELSE q.had.price
    IN  /\ q.pc = "load"
        /\ IF /\ k.exists /\ (relinked => ~k.deleted /\ k.active) /\ products # {}
              /\ (relinked \/ price # q.had.price) =>
                    AtLeast(IF price = NoPrice THEN k.price ELSE price, minPrice(products))
           THEN Writes(w, [exists |-> TRUE, kit |-> q.kit, price |-> price, products |-> products,
                           status |-> q.status])
           ELSE Ends(w)
        /\ UNCHANGED <<live, kit, campaign, torn, oneClerk, shelfDied>>

\* A new link needs a live, active kit; an old one may be to a deleted kit
\* while the campaign is stopped.  The price is held to the floor when the
\* link or the price changes.
LoadKit(w) ==
    LET q == clerk[w]
        k == kit[q.kit]
        relinked == q.kit # q.had.kit
        running == Given(q.status, q.had.status) # "STOPPED"
        products == k.items \cap live
        price == IF q.price # Keep THEN q.price ELSE IF relinked THEN NoPrice ELSE q.had.price
        effective == IF price = NoPrice THEN k.price ELSE price
        refused == IF relinked THEN k.deleted \/ ~k.active ELSE k.deleted /\ running
        ok == /\ k.exists /\ ~refused /\ products # {}
              /\ (relinked \/ price # q.had.price) => AtLeast(effective, minPrice(products))
    IN  /\ q.pc = "load"
        /\ IF ok
           THEN Writes(w, [exists |-> TRUE, kit |-> q.kit, price |-> price, products |-> products,
                           status |-> q.status])
           ELSE Ends(w)
        /\ UNCHANGED <<live, kit, campaign, torn, oneClerk, shelfDied>>

\* The campaign is inserted, or the fields of the request are set.
WriteCampaign(w) ==
    LET q == clerk[w] IN
    /\ q.pc = "write"
    /\ campaign' = [campaign EXCEPT ![q.camp] = [f \in DOMAIN @ |-> Given(q.set[f], @[f])]]
    /\ Ends(w)
    /\ UNCHANGED <<live, kit, torn, oneClerk, shelfDied>>

-----------------------------------------------------------------------------
\* products.service: a product is deleted, or restored.
DeleteProduct(p) ==
    /\ p \in live /\ (oneClerk => \A w \in Clerks : clerk[w].pc = "idle")
    /\ live' = live \ {p}
    /\ UNCHANGED <<kit, campaign, clerk, torn, oneClerk, shelfDied>>

RestoreProduct(p) ==
    /\ p \notin live /\ (oneClerk => \A w \in Clerks : clerk[w].pc = "idle")
    /\ live' = live \cup {p}
    /\ torn' = torn \cup {k \in Kits : p \in kit[k].items}
    /\ UNCHANGED <<kit, campaign, clerk, oneClerk, shelfDied>>

ClerkDies(w) ==
    /\ clerk[w].pc # "idle" /\ shelfDied < ShelfDeaths
    /\ shelfDied' = shelfDied + 1
    /\ torn' = IF clerk[w].pc = "sync" THEN torn \cup {clerk[w].kit} ELSE torn
    /\ Ends(w)
    /\ UNCHANGED <<live, kit, campaign, oneClerk>>

KitNext ==
    \/ \E w \in Clerks :
         \/ CreateKit(w) \/ BeginKitEdit(w) \/ CheckActive(w) \/ CheckPrices(w) \/ SaveKit(w)
         \/ \E c \in Campaigns : SyncCampaign(w, c)
         \/ FinishSync(w)
         \/ \E k \in Kits : BeginRemove(w, k)
         \/ RemoveKit(w)
         \/ AskUpdate(w) \/ BeginSave(w) \/ LoadKit(w) \/ WriteCampaign(w) \/ ClerkDies(w)
    \/ \E p \in KitProducts : DeleteProduct(p) \/ RestoreProduct(p)

KitSpec == KitInit /\ [][KitNext]_kitVars

-----------------------------------------------------------------------------
AllIdle == \A w \in Clerks : clerk[w].pc = "idle"

\* "Linked campaigns carry the kit's current contents", deleted products aside;
\* saving the kit again repairs a sync that died half way and takes in a
\* restored product (TribeKitsService.update, CampaignsService.update).
CampaignsFollowKit ==
    oneClerk /\ AllIdle =>
        \A k \in Kits \ torn : \A c \in Linked(k) :
            campaign[c].products \cap live = kit[k].items \cap live

\* No campaign runs on a deleted kit: its removal is blocked while one does,
\* and a stopped one cannot be started (assertNoActiveCampaigns, loadKit).
NoneRunsOnDeletedKit ==
    oneClerk /\ AllIdle => \A k \in Kits : kit[k].deleted => Running(k) = {}

\* "no kit or campaign may go below" the production cost: whether the kit, the
\* campaign's price or its link changed last, and again once a kit whose
\* product came back has been saved (assertPriceAtLeast).
PriceClearsFloor ==
    oneClerk => \A k \in Kits \ torn : \A c \in Linked(k) :
        LET price == campaign[c].price IN
        AtLeast(IF price = NoPrice THEN kit[k].price ELSE price, minPrice(kit[k].items \cap live))

\* A kit and its campaigns agree between requests: contents, life and price.
KitsInOrder == CampaignsFollowKit /\ NoneRunsOnDeletedKit /\ PriceClearsFloor
=============================================================================
