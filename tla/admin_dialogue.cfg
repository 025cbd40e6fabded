SPECIFICATION Spec
CONSTANTS
    owner = owner
    helper = helper
    u1 = u1
    u2 = u2
    link1 = link1
    shop = shop
    berlin = berlin
    none = none
    photo = photo
    People = {owner, helper}
    Owner = owner
    Updates = {u1, u2}
    Refs = {link1}
    Items = {shop, berlin}
    Unset = none
    Media = photo
    Actions = {"add_panel", "add_channel", "number", "add_admin", "message"}
    MaxOpened = 2
INVARIANTS
    TypeOK
    PartsVerified
    NumberToItsItem
    ClosedStaysClosed
    DialogueInv
SYMMETRY Symmetry
