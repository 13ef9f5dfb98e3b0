----------------------------- MODULE MCScreening -----------------------------
(* An instance of Screening for TLC: seven customers, eleven rows, six       *)
(* ledgers to start from.                                                    *)
EXTENDS Screening

\* The likeness of the tokens of the lists to the tokens in use, as
\* _jaro_winkler gives it; what is not here is not alike at all.
Alike ==
  { << "viktor", "petrov", 556 >>, << "viktor", "petroff", 532 >>, << "viktor", "maria", 456 >>,
    << "viktor", "gonzalez", 431 >>, << "viktor", "aurora", 556 >>, << "viktor", "offshore", 528 >>,
    << "viktor", "deposit", 437 >>, << "viktor", "landlord", 528 >>, << "viktor", "wallet", 444 >>,
    << "viktor", "shop", 472 >>, << "petrov", "petroff", 910 >>, << "petrov", "maria", 456 >>,
    << "petrov", "gonzalez", 431 >>, << "petrov", "aurora", 556 >>, << "petrov", "trade", 578 >>,
    << "petrov", "jane", 472 >>, << "petrov", "doe", 500 >>, << "petrov", "offshore", 361 >>,
    << "petrov", "deposit", 532 >>, << "petrov", "acme", 472 >>, << "petrov", "landlord", 361 >>,
    << "petrov", "shop", 472 >>, << "petroff", "maria", 448 >>, << "petroff", "gonzalez", 423 >>,
    << "petroff", "aurora", 540 >>, << "petroff", "trade", 562 >>, << "petroff", "jane", 464 >>,
    << "petroff", "doe", 492 >>, << "petroff", "offshore", 490 >>, << "petroff", "deposit", 508 >>,
    << "petroff", "acme", 464 >>, << "petroff", "landlord", 345 >>, << "petroff", "shop", 464 >>,
    << "maria", "gonzalez", 442 >>, << "maria", "aurora", 700 >>, << "maria", "trade", 433 >>,
    << "maria", "jane", 483 >>, << "maria", "deposit", 448 >>, << "maria", "acme", 483 >>,
    << "maria", "landlord", 442 >>, << "maria", "wallet", 456 >>, << "gonzalez", "aurora", 528 >>,
    << "gonzalez", "trade", 550 >>, << "gonzalez", "jane", 597 >>, << "gonzalez", "doe", 486 >>,
    << "gonzalez", "offshore", 500 >>, << "gonzalez", "deposit", 423 >>, << "gonzalez", "acme", 458 >>,
    << "gonzalez", "landlord", 472 >>, << "gonzalez", "wallet", 625 >>, << "gonzalez", "shop", 458 >>,
    << "aurora", "trade", 411 >>, << "aurora", "jane", 472 >>, << "aurora", "doe", 500 >>,
    << "aurora", "offshore", 528 >>, << "aurora", "deposit", 437 >>, << "aurora", "acme", 525 >>,
    << "aurora", "landlord", 625 >>, << "aurora", "wallet", 444 >>, << "aurora", "shop", 472 >>,
    << "trade", "jane", 633 >>, << "trade", "offshore", 442 >>, << "trade", "acme", 483 >>,
    << "trade", "landlord", 550 >>, << "trade", "wallet", 578 >> }
MCTokens == UNION { { a[1], a[2] } : a \in Alike }
MCLikeness ==
  [x, y \in MCTokens |->
     IF x = y THEN 1000
     ELSE Max({ 0 } \cup { a[3] : a \in { b \in Alike : { b[1], b[2] } = { x, y } } })]

JaneDoe == << "jane", "doe" >>
ViktorPetrov == << "viktor", "petrov" >>
Aurora == << "aurora", "trade" >>
Offshore == << "offshore" >>
MCSanctionedNames == { ViktorPetrov, << "viktor", "petroff" >>, Aurora }
MCPepNames == { << "maria", "gonzalez" >>, ViktorPetrov }
MCHighRiskParties == { Offshore, Aurora }
MCBlocked == { "Iran" }
MCHighRisk == { "Russia", "Cayman Islands" }
MCMediumRisk == { "Malta" }
MCIndustryRisk == [crypto |-> 70, construction |-> 50, technology |-> 10]

\* The customers: nothing remarkable; listed; a near miss; a listed PEP with a
\* poor record; resident of a blocked country; a new account; and activity that
\* was observed.
Plain ==
  [name |-> JaneDoe, country |-> "Ireland", nationality |-> "Ireland", tax |-> "Ireland",
   identity |-> [born |-> TRUE, numbered |-> TRUE, unexpired |-> TRUE], sourced |-> TRUE,
   industry |-> "technology", remote |-> FALSE, income |-> 60000, expected |-> 5000,
   declaredPep |-> FALSE, age |-> 900, attested |-> {}]
MCProfiles ==
  { Plain,
    [Plain EXCEPT !.name = ViktorPetrov, !.country = "Russia", !.nationality = "Russia"],
    [Plain EXCEPT !.name = << "petroff" >>, !.tax = "Malta", !.industry = "trading"],
    [Plain EXCEPT !.name = << "maria", "gonzalez" >>, !.declaredPep = TRUE, !.sourced = FALSE,
                  !.identity = [born |-> FALSE, numbered |-> TRUE, unexpired |-> FALSE]],
    [Plain EXCEPT !.country = "Iran", !.industry = "construction", !.remote = TRUE],
    [Plain EXCEPT !.age = 10, !.expected = 1000, !.income = 3000, !.industry = "crypto",
                  !.nationality = "", !.identity.numbered = FALSE],
    [Plain EXCEPT !.country = "", !.expected = 0,
                  !.attested = { "structuring", "rapid_movement", "crypto_exposure" }] }

Cell(day, amount, direction, party, channel, country) ==
  [day |-> day, amount |-> amount, direction |-> direction, party |-> party,
   channel |-> channel, country |-> country]
MCCells ==
  [near    |-> Cell(5, 9500, "in", << "deposit" >>, "cash", ""),
   salary  |-> Cell(2, 3000, "in", << "acme" >>, "transfer", "Ireland"),
   rent    |-> Cell(40, 6000, "out", << "landlord" >>, "transfer", "Malta"),
   inflow  |-> Cell(9, 24000, "in", Offshore, "wire", "Cayman Islands"),
   outflow |-> Cell(10, 23000, "out", Offshore, "wire", "Cayman Islands"),
   listed  |-> Cell(11, 2500, "out", Aurora, "wire", "Russia"),
   unnamed |-> Cell(12, 4000, "out", Nobody, "wire", "Iran"),
   card    |-> Cell(6, 50, "out", << "shop" >>, "card", "Ireland"),
   coins   |-> Cell(Undated, 900, "in", << "wallet" >>, "crypto", ""),
   sloppy  |-> Cell(Undated, 9500, "sideways", Nobody, Blank, ""),
   empty   |-> Cell(Undated, NoAmount, Blank, Nobody, Blank, "")]

Filled(counts) == [id \in DOMAIN MCCells |-> IF id \in DOMAIN counts THEN counts[id] ELSE 0]
MCLedgers ==
  { Filled([empty |-> 1]),
    Filled([salary |-> 2]),
    Filled([near |-> 3]),
    Filled([salary |-> 1, inflow |-> 1, outflow |-> 1]),
    Filled([salary |-> 2, rent |-> 1, unnamed |-> 1]),
    Filled([card |-> 8, near |-> 1, listed |-> 1]) }
=============================================================================
