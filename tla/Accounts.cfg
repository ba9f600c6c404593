\* One name, two passwords, two tabs of a browser and another browser, three ticks.
CONSTANTS
    t1 = t1
    t2 = t2
    t3 = t3
    b1 = b1
    b2 = b2
    Tabs = {t1, t2, t3}
    Browsers = {b1, b2}
    BrowserOf <- ThreeTabs
    Names = {ana}
    Passwords = {red, blue}
    Guest = Guest
    Session = 1
    Remember = 2
    MaxTime = 3
SYMMETRY Symmetry
SPECIFICATION Spec
INVARIANTS AccountsStand WithinLifetime
CHECK_DEADLOCK FALSE
