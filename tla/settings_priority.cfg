CONSTANTS
    Runs = {"r"}
    Edited = {"password", "fancy"}
    Typed = {Plain, Markup}
    Given <- UserAndRepository
    Unset = Unset
    On = On
    Plain = Plain
    Raw = Raw
    Markup = Markup
    Absent = Absent
    None = None
SPECIFICATION Spec
PROPERTY CommandLinePrevails
