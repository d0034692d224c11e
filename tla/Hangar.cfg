\* Two sessions of one account; purchases, crafting, rentals, and every cut.
SPECIFICATION Spec
CONSTANTS
    hero = hero
    agent = agent
    gun = gun
    scope = scope
    emblem = emblem
    Item = {hero, agent, gun, scope, emblem}
    Catalog <- SmallCatalog
    Fits <- SmallFits
    Starter <- SmallStarter
    Start <- SmallStart
    MaxSerial = 3
    Session = {s1, s2}
    Recipes <- SmallRecipes
    Spent = {1901}
    Worn = {hero, agent, gun}
    Parts = {scope}
    NoAccount = NoAccount
    Unknown = Unknown
    MaxTime = 1
    MaxExpiry = 2
    MaxMounts = 1
    MaxMishaps = 2
    Disruption = {"drop", "fail", "crash"}
SYMMETRY Symmetry
INVARIANT WalletSound
INVARIANT SerialsUnique
INVARIANT OnePerSlot
 
INVARIANT HeroesEquipped
INVARIANT WornOwned
INVARIANT GoodsPaid
CHECK_DEADLOCK FALSE
