SPECIFICATION Spec
CONSTANTS
    tom = tom
    mail = mail
    bot = bot
    name = name
    lang = lang
    Nobody = Nobody
    AccountIds = {a1, a2, a3}
    Emails = {mail, bot}
    TelegramIds = {tom}
    ReservedEmail <- MCReservedEmail
    Fields = {name, lang}
    FormFields = {lang}
    Profiles <- MCProfiles
    Blank <- MCBlank
    Requests = {r1, r2}
    MaxRemoved = 1
SYMMETRY MCSymmetry
PROPERTIES
    SignInsTakeEffect
    RaceLosersSignIn
